---- MODULE Spec2Model ----
(***************************************************************************)
(* Rule engine of the geometry-masking pipeline: literal parsing, path     *)
(* resolution, relaxed/strict coercion, expression and rule evaluation,    *)
(* and profile enforcement.                                                *)
(*                                                                         *)
(* A Python str is a sequence of characters; a character is a one-element  *)
(* TLA+ string ("sup2" stands for U+00B2 SUPERSCRIPT TWO, "half" for       *)
(* U+00BD VULGAR FRACTION ONE HALF, "emdash" for U+2014).                  *)
(* A Python value is a record tagged by its runtime type:                  *)
(*   [t |-> "none"], [t |-> "bool", b], [t |-> "int", n],                  *)
(*   [t |-> "float", k, x]  (k: "fin" | "inf" | "ninf" | "nan";            *)
(*                           x: the value in 1/FScale units),              *)
(*   [t |-> "str", s], [t |-> "list", items], [t |-> "dict", d].           *)
(***************************************************************************)
EXTENDS Integers, Sequences, FiniteSets, TLC

VARIABLES profile_check_enabled, pc, fn, args, result, rules, idx, evaluated,
          walk_keys, walk_value

vars == <<profile_check_enabled, pc, fn, args, result, rules, idx, evaluated,
          walk_keys, walk_value>>

-----------------------------------------------------------------------------
(* Python values *)

FScale == 10 * 10 * 10

\* the element of a one-element set: Only({ body : x \in {e} }) is body with
\* x standing for the value of e, as a local variable of the code does
Only(S) == CHOOSE r \in S : TRUE

None == [t |-> "none"]
PyBool(b) == [t |-> "bool", b |-> b]
PyInt(n) == [t |-> "int", n |-> n]
PyFloat(x) == [t |-> "float", k |-> "fin", x |-> x]
PyInf == [t |-> "float", k |-> "inf", x |-> 0]
PyNegInf == [t |-> "float", k |-> "ninf", x |-> 0]
PyNaN == [t |-> "float", k |-> "nan", x |-> 0]
PyStr(s) == [t |-> "str", s |-> s]
PyList(items) == [t |-> "list", items |-> items]
PyDict(d) == [t |-> "dict", d |-> d]
EmptyDict == PyDict(<<>>)

\* a call's outcome: a returned value or a raised exception
Ret(v) == [ok |-> TRUE, val |-> v]
Raise(exc, kind, detail) == [ok |-> FALSE, exc |-> exc, kind |-> kind, detail |-> detail]

IsStr(v) == v.t = "str"
IsNone(v) == v.t = "none"
\* isinstance(v, int) is true of booleans too
IsInstanceInt(v) == v.t \in {"int", "bool"}
IsInstanceNumber(v) == v.t \in {"int", "bool", "float"}

\* bool(v) / `not v`
Truthy(v) ==
  CASE v.t = "none" -> FALSE
    [] v.t = "bool" -> v.b
    [] v.t = "int" -> v.n # 0
    [] v.t = "float" -> ~(v.k = "fin" /\ v.x = 0)
    [] v.t = "str" -> v.s # <<>>
    [] v.t = "list" -> v.items # <<>>
    [] v.t = "dict" -> DOMAIN v.d # {}

-----------------------------------------------------------------------------
(* Python str methods *)

UpperLetters == <<"A","B","C","D","E","F","G","H","I","J","K","L","M",
                  "N","O","P","Q","R","S","T","U","V","W","X","Y","Z">>
LowerLetters == <<"a","b","c","d","e","f","g","h","i","j","k","l","m",
                  "n","o","p","q","r","s","t","u","v","w","x","y","z">>
AsciiDigits == <<"0","1","2","3","4","5","6","7","8","9">>

\* code-point order of the characters the model uses
CodePoints == <<" ", "!", "\"", "'", "+", ",", "-", ".">> \o AsciiDigits
              \o <<"<", "=", ">">> \o UpperLetters \o <<"[", "]", "_">>
              \o LowerLetters \o <<"sup2", "half", "emdash">>

Ord(c) == CHOOSE i \in 1..Len(CodePoints) : CodePoints[i] = c

IsSpaceChar(c) == c = " "
IsAsciiDigit(c) == \E i \in 1..10 : AsciiDigits[i] = c
DigitVal(c) == (CHOOSE i \in 1..10 : AsciiDigits[i] = c) - 1
\* str.isdigit(): decimal digits and digit-like characters such as superscripts
IsDigitChar(c) == IsAsciiDigit(c) \/ c = "sup2"
\* str.isnumeric(): isdigit characters and numeric characters such as fractions
IsNumericChar(c) == IsDigitChar(c) \/ c = "half"

LowerChar(c) ==
  IF \E i \in 1..26 : UpperLetters[i] = c
  THEN LowerLetters[CHOOSE i \in 1..26 : UpperLetters[i] = c]
  ELSE c

RECURSIVE Lower(_)
Lower(s) == IF s = <<>> THEN <<>> ELSE <<LowerChar(Head(s))>> \o Lower(Tail(s))

RECURSIVE LStrip(_)
LStrip(s) == IF s # <<>> /\ IsSpaceChar(Head(s)) THEN LStrip(Tail(s)) ELSE s

RECURSIVE RStrip(_)
RStrip(s) ==
  IF s # <<>> /\ IsSpaceChar(s[Len(s)]) THEN RStrip(SubSeq(s, 1, Len(s) - 1)) ELSE s

Strip(s) == RStrip(LStrip(s))

StartsWith(s, c) == s # <<>> /\ s[1] = c
EndsWith(s, c) == s # <<>> /\ s[Len(s)] = c
Contains(s, c) == \E i \in 1..Len(s) : s[i] = c

IsDigitStr(s) == s # <<>> /\ \A i \in 1..Len(s) : IsDigitChar(s[i])
IsNumericStr(s) == s # <<>> /\ \A i \in 1..Len(s) : IsNumericChar(s[i])

\* s.split(sep): the pieces between the occurrences of the one-character sep
RECURSIVE SplitAcc(_, _, _, _)
SplitAcc(s, sep, cur, left) ==
  IF s = <<>> THEN <<cur>>
  ELSE IF Head(s) = sep /\ left # 0
       THEN <<cur>> \o SplitAcc(Tail(s), sep, <<>>, IF left > 0 THEN left - 1 ELSE left)
       ELSE SplitAcc(Tail(s), sep, Append(cur, Head(s)), left)

Split(s, sep) == SplitAcc(s, sep, <<>>, -1)
SplitMax(s, sep, maxsplit) == SplitAcc(s, sep, <<>>, maxsplit)

\* s.replace(old, new) for a non-empty old, scanning left to right
RECURSIVE Replace(_, _, _)
Replace(s, old, new) ==
  IF Len(s) < Len(old) THEN s
  ELSE IF SubSeq(s, 1, Len(old)) = old
       THEN new \o Replace(SubSeq(s, Len(old) + 1, Len(s)), old, new)
       ELSE <<Head(s)>> \o Replace(Tail(s), old, new)

\* a in b for two strings
IsSubstring(a, b) ==
  \E i \in 1..(Len(b) + 1) : i + Len(a) - 1 <= Len(b) /\ SubSeq(b, i, i + Len(a) - 1) = a

\* a < b for two strings (code-point lexicographic)
RECURSIVE StrLess(_, _)
StrLess(a, b) ==
  IF b = <<>> THEN FALSE
  ELSE IF a = <<>> THEN TRUE
  ELSE IF Head(a) = Head(b) THEN StrLess(Tail(a), Tail(b))
  ELSE Ord(Head(a)) < Ord(Head(b))

-----------------------------------------------------------------------------
(* Python number parsing and formatting *)

RECURSIVE Pow10(_)
Pow10(n) == IF n <= 0 THEN 1 ELSE 10 * Pow10(n - 1)

\* digitpart: digit (["_"] digit)*
IsDigitGroup(s) ==
  /\ s # <<>>
  /\ \A i \in 1..Len(s) : IsAsciiDigit(s[i]) \/ s[i] = "_"
  /\ IsAsciiDigit(s[1]) /\ IsAsciiDigit(s[Len(s)])
  /\ \A i \in 1..(Len(s) - 1) : ~(s[i] = "_" /\ s[i + 1] = "_")

RECURSIVE GroupValueAcc(_, _)
GroupValueAcc(s, acc) ==
  IF s = <<>> THEN acc
  ELSE IF Head(s) = "_" THEN GroupValueAcc(Tail(s), acc)
  ELSE GroupValueAcc(Tail(s), 10 * acc + DigitVal(Head(s)))

GroupValue(s) == GroupValueAcc(s, 0)
GroupDigits(s) == Cardinality({i \in 1..Len(s) : s[i] # "_"})

HasSign(s) == s # <<>> /\ s[1] \in {"+", "-"}
Unsigned(s) == IF HasSign(s) THEN Tail(s) ELSE s
SignOf(s) == IF s # <<>> /\ s[1] = "-" THEN -1 ELSE 1

\* int(s) for a str s: [ok, n]; ok = FALSE is ValueError
IntParse(s) ==
  Only({
  Only({
    IF IsDigitGroup(body)
    THEN [ok |-> TRUE, n |-> SignOf(t) * GroupValue(body)]
    ELSE [ok |-> FALSE, n |-> 0]
  : body \in {Unsigned(t)} })
  : t \in {Strip(s)} })

IndexOf(s, c) == IF Contains(s, c) THEN CHOOSE i \in 1..Len(s) : s[i] = c /\ \A j \in 1..(i - 1) : s[j] # c ELSE 0

\* an unsigned decimal mantissa with optional exponent (lower-cased): the
\* value in 1/FScale units, truncated toward zero
DecimalParse(body) ==
  Only({
  Only({
  Only({
  Only({
  Only({
  Only({
    LET expOk == ePos = 0 \/ IsDigitGroup(Unsigned(expo))
        expVal == IF ePos = 0 \/ ~expOk THEN 0 ELSE SignOf(expo) * GroupValue(Unsigned(expo))
        mantOk == /\ (ip = <<>> \/ IsDigitGroup(ip))
                  /\ (fp = <<>> \/ IsDigitGroup(fp))
                  /\ ~(ip = <<>> /\ fp = <<>>)
        fd == IF fp = <<>> THEN 0 ELSE GroupDigits(fp)
        m == (IF ip = <<>> THEN 0 ELSE GroupValue(ip)) * Pow10(fd)
             + (IF fp = <<>> THEN 0 ELSE GroupValue(fp))
        shift == expVal - fd + 3
    IN IF mantOk /\ expOk
       THEN [ok |-> TRUE,
             x |-> IF shift >= 0 THEN m * Pow10(shift) ELSE m \div Pow10(-shift)]
       ELSE [ok |-> FALSE, x |-> 0]
  : fp \in {IF dPos = 0 THEN <<>> ELSE SubSeq(mant, dPos + 1, Len(mant))} })
  : ip \in {IF dPos = 0 THEN mant ELSE SubSeq(mant, 1, dPos - 1)} })
  : dPos \in {IndexOf(mant, ".")} })
  : expo \in {IF ePos = 0 THEN <<>> ELSE SubSeq(body, ePos + 1, Len(body))} })
  : mant \in {IF ePos = 0 THEN body ELSE SubSeq(body, 1, ePos - 1)} })
  : ePos \in {IndexOf(body, "e")} })

SeqInf == <<"i","n","f">>
SeqInfinity == <<"i","n","f","i","n","i","t","y">>
SeqNan == <<"n","a","n">>

\* float(s) for a str s: [ok, v]; ok = FALSE is ValueError
FloatParse(s) ==
  Only({
  Only({
    IF body \in {SeqInf, SeqInfinity}
    THEN [ok |-> TRUE, v |-> IF SignOf(t) = -1 THEN PyNegInf ELSE PyInf]
    ELSE IF body = SeqNan THEN [ok |-> TRUE, v |-> PyNaN]
    ELSE Only({
           IF d.ok THEN [ok |-> TRUE, v |-> PyFloat(SignOf(t) * d.x)]
           ELSE [ok |-> FALSE, v |-> None]
         : d \in {DecimalParse(body)} })
  : body \in {Unsigned(t)} })
  : t \in {Lower(Strip(s))} })

\* str(n) for an int
RECURSIVE NatToStr(_)
NatToStr(n) ==
  IF n < 10 THEN <<AsciiDigits[n + 1]>>
  ELSE NatToStr(n \div 10) \o <<AsciiDigits[(n % 10) + 1]>>

IntToStr(n) == IF n < 0 THEN <<"-">> \o NatToStr(-n) ELSE NatToStr(n)

\* the fractional digits of a value in 1/FScale units, trailing zeros dropped
FracDigits(r) ==
  IF r = 0 THEN <<"0">>
  ELSE IF r % 100 = 0 THEN NatToStr(r \div 100)
  ELSE IF r % 10 = 0 THEN (IF r < 100 THEN <<"0">> ELSE <<>>) \o NatToStr(r \div 10)
  ELSE (IF r < 10 THEN <<"0", "0">> ELSE IF r < 100 THEN <<"0">> ELSE <<>>) \o NatToStr(r)

\* str(v) for a float
FloatToStr(v) ==
  CASE v.k = "inf" -> SeqInf
    [] v.k = "ninf" -> <<"-">> \o SeqInf
    [] v.k = "nan" -> SeqNan
    [] v.k = "fin" ->
         LET a == IF v.x < 0 THEN -v.x ELSE v.x
         IN (IF v.x < 0 THEN <<"-">> ELSE <<>>)
            \o NatToStr(a \div FScale) \o <<".">> \o FracDigits(a % FScale)

\* float(v) for a non-str value: [ok, v]; ok = FALSE is TypeError
NumberToFloat(v) ==
  CASE v.t = "float" -> [ok |-> TRUE, v |-> v]
    [] v.t = "int" -> [ok |-> TRUE, v |-> PyFloat(v.n * FScale)]
    [] v.t = "bool" -> [ok |-> TRUE, v |-> PyFloat(IF v.b THEN FScale ELSE 0)]
    [] OTHER -> [ok |-> FALSE, v |-> None]

\* int(v) for a non-str value: [ok, n]; ok = FALSE is TypeError/ValueError/OverflowError
NumberToInt(v) ==
  CASE v.t = "int" -> [ok |-> TRUE, n |-> v.n]
    [] v.t = "bool" -> [ok |-> TRUE, n |-> IF v.b THEN 1 ELSE 0]
    [] v.t = "float" /\ v.k = "fin" ->
         [ok |-> TRUE, n |-> IF v.x >= 0 THEN v.x \div FScale ELSE -((-v.x) \div FScale)]
    [] OTHER -> [ok |-> FALSE, n |-> 0]

\* the numeric value of a bool/int/finite float, in 1/FScale units
Scaled(v) ==
  CASE v.t = "bool" -> IF v.b THEN FScale ELSE 0
    [] v.t = "int" -> v.n * FScale
    [] v.t = "float" -> v.x

SeqTrue == <<"T","r","u","e">>
SeqFalse == <<"F","a","l","s","e">>
SeqNone == <<"N","o","n","e">>
SeqLowerTrue == <<"t","r","u","e">>
SeqLowerFalse == <<"f","a","l","s","e">>
SeqLowerNone == <<"n","o","n","e">>
SeqLowerNull == <<"n","u","l","l">>

\* str(v) for a scalar value
ToStr(v) ==
  CASE v.t = "str" -> v.s
    [] v.t = "none" -> SeqNone
    [] v.t = "bool" -> IF v.b THEN SeqTrue ELSE SeqFalse
    [] v.t = "int" -> IntToStr(v.n)
    [] v.t = "float" -> FloatToStr(v)

\* repr(v) of a scalar: strings are quoted
Repr(v) == IF v.t = "str" THEN <<"'">> \o v.s \o <<"'">> ELSE ToStr(v)

RECURSIVE JoinRepr(_)
JoinRepr(items) ==
  IF items = <<>> THEN <<>>
  ELSE IF Len(items) = 1 THEN Repr(items[1])
  ELSE Repr(items[1]) \o <<",", " ">> \o JoinRepr(Tail(items))

\* str(v) for any value. The text of a non-empty dict depends on its insertion
\* order, which the model's dicts do not keep: its items are one opaque
\* character (no string of the model holds "{", so none equals a dict's text)
StrOf(v) ==
  CASE v.t = "list" -> <<"[">> \o JoinRepr(v.items) \o <<"]">>
    [] v.t = "dict" -> IF DOMAIN v.d = {} THEN <<"{", "}">> ELSE <<"{", "dictitems", "}">>
    [] OTHER -> ToStr(v)

-----------------------------------------------------------------------------
(* Python comparisons *)

IsNumber(v) == v.t \in {"bool", "int", "float"}

NumEq(a, b) ==
  LET ka == IF a.t = "float" THEN a.k ELSE "fin"
      kb == IF b.t = "float" THEN b.k ELSE "fin"
  IN /\ ka # "nan" /\ kb # "nan"
     /\ ka = kb
     /\ (ka = "fin" => Scaled(a) = Scaled(b))

NumLess(a, b) ==
  LET ka == IF a.t = "float" THEN a.k ELSE "fin"
      kb == IF b.t = "float" THEN b.k ELSE "fin"
  IN /\ ka # "nan" /\ kb # "nan"
     /\ \/ ka = "ninf" /\ kb # "ninf"
        \/ ka = "fin" /\ kb = "inf"
        \/ ka = "fin" /\ kb = "fin" /\ Scaled(a) < Scaled(b)

\* a == b for scalars
ScalarEq(a, b) ==
  CASE IsNumber(a) /\ IsNumber(b) -> NumEq(a, b)
    [] a.t = "str" /\ b.t = "str" -> a.s = b.s
    [] a.t = "none" /\ b.t = "none" -> TRUE
    [] OTHER -> FALSE

\* a == b; list items and dict values of the model are scalars
PyEq(a, b) ==
  CASE a.t = "list" /\ b.t = "list" ->
         /\ Len(a.items) = Len(b.items)
         /\ \A i \in 1..Len(a.items) : ScalarEq(a.items[i], b.items[i])
    [] a.t = "dict" /\ b.t = "dict" ->
         /\ DOMAIN a.d = DOMAIN b.d
         /\ \A k \in DOMAIN a.d :
              IF a.d[k].t = "dict" \/ b.d[k].t = "dict"
              THEN a.d[k] = b.d[k]
              ELSE ScalarEq(a.d[k], b.d[k])
    [] a.t \in {"list", "dict"} \/ b.t \in {"list", "dict"} -> FALSE
    [] OTHER -> ScalarEq(a, b)

\* a < b for scalars: [ok, b]; ok = FALSE is TypeError
ScalarLess(a, b) ==
  CASE IsNumber(a) /\ IsNumber(b) -> [ok |-> TRUE, b |-> NumLess(a, b)]
    [] a.t = "str" /\ b.t = "str" -> [ok |-> TRUE, b |-> StrLess(a.s, b.s)]
    [] OTHER -> [ok |-> FALSE, b |-> FALSE]

\* a < b for two lists: the first differing pair decides (it must be orderable)
RECURSIVE ListLess(_, _)
ListLess(x, y) ==
  IF y = <<>> THEN [ok |-> TRUE, b |-> FALSE]
  ELSE IF x = <<>> THEN [ok |-> TRUE, b |-> TRUE]
  ELSE IF ScalarEq(Head(x), Head(y)) THEN ListLess(Tail(x), Tail(y))
  ELSE ScalarLess(Head(x), Head(y))

PyLess(a, b) ==
  IF a.t = "list" /\ b.t = "list" THEN ListLess(a.items, b.items)
  ELSE IF a.t \in {"list", "dict"} \/ b.t \in {"list", "dict"}
       THEN [ok |-> FALSE, b |-> FALSE]
       ELSE ScalarLess(a, b)

\* a <= b: for numbers and strings a < b or a == b; for lists likewise
PyLessEq(a, b) ==
  Only({
    IF ~lt.ok THEN lt ELSE [ok |-> TRUE, b |-> lt.b \/ PyEq(a, b)] : lt \in {PyLess(a, b)} })

-----------------------------------------------------------------------------
(* src/rules/operators.py *)

\* re.fullmatch over the pattern forms the model's strings can hold: literal
\* characters, "." (any character) and "[...]" (a set of characters)
ClassEnd(p) == IF \E j \in 3..Len(p) : p[j] = "]"
               THEN CHOOSE j \in 3..Len(p) : p[j] = "]" /\ \A k \in 3..(j - 1) : p[k] # "]"
               ELSE 0

RECURSIVE RegexValid(_)
RegexValid(p) ==
  IF p = <<>> THEN TRUE
  ELSE IF Head(p) = "["
       THEN ClassEnd(p) # 0 /\ RegexValid(SubSeq(p, ClassEnd(p) + 1, Len(p)))
       ELSE RegexValid(Tail(p))

RECURSIVE RegexMatch(_, _)
RegexMatch(p, s) ==
  IF p = <<>> THEN s = <<>>
  ELSE IF s = <<>> THEN FALSE
  ELSE IF Head(p) = "["
       THEN /\ Head(s) \in {p[k] : k \in 2..(ClassEnd(p) - 1)}
            /\ RegexMatch(SubSeq(p, ClassEnd(p) + 1, Len(p)), Tail(s))
       ELSE /\ (Head(p) = "." \/ Head(p) = Head(s))
            /\ RegexMatch(Tail(p), Tail(s))

OpEq == <<"=", "=">>
OpNe == <<"!", "=">>
OpLt == <<"<">>
OpLe == <<"<", "=">>
OpGt == <<">">>
OpGe == <<">", "=">>
OpIn == <<"i", "n">>
OpNotIn == <<"n", "o", "t", " ", "i", "n">>
OpMatches == <<"m", "a", "t", "c", "h", "e", "s">>

SUPPORTED_OPERATORS == {OpEq, OpNe, OpLt, OpLe, OpGt, OpGe, OpIn, OpNotIn, OpMatches}

\* a in b: [ok, b]; ok = FALSE is TypeError
op_in(a, b) ==
  CASE b.t = "str" -> IF a.t = "str" THEN [ok |-> TRUE, b |-> IsSubstring(a.s, b.s)]
                      ELSE [ok |-> FALSE, b |-> FALSE]
    [] b.t = "list" -> [ok |-> TRUE, b |-> \E i \in 1..Len(b.items) : PyEq(b.items[i], a)]
    [] b.t = "dict" -> IF a.t \in {"list", "dict"} THEN [ok |-> FALSE, b |-> FALSE]
                       ELSE [ok |-> TRUE, b |-> a.t = "str" /\ a.s \in DOMAIN b.d]
    [] OTHER -> [ok |-> FALSE, b |-> FALSE]

\* re.fullmatch(b, str(a)) is not None: [ok, b]; ok = FALSE is TypeError / re.error
op_matches(a, b) ==
  IF b.t # "str" \/ ~RegexValid(b.s) THEN [ok |-> FALSE, b |-> FALSE]
  ELSE Only({ [ok |-> TRUE, b |-> RegexMatch(b.s, text)] : text \in {StrOf(a)} })

Negate(r) == [ok |-> r.ok, b |-> r.ok /\ ~r.b]

\* SUPPORTED_OPERATORS[op](a, b): [ok, b]; ok = FALSE is an exception of the comparison
ApplyOperator(op, a, b) ==
  CASE op = OpEq -> [ok |-> TRUE, b |-> PyEq(a, b)]
    [] op = OpNe -> [ok |-> TRUE, b |-> ~PyEq(a, b)]
    [] op = OpLt -> PyLess(a, b)
    [] op = OpLe -> PyLessEq(a, b)
    [] op = OpGt -> PyLess(b, a)
    [] op = OpGe -> PyLessEq(b, a)
    [] op = OpIn -> op_in(a, b)
    [] op = OpNotIn -> Negate(op_in(a, b))
    [] op = OpMatches -> op_matches(a, b)

alt_map == [from : {<<"=", "=", "=">>}, to : {OpEq}]
           \cup [from : {<<"!", "=", "=">>}, to : {OpNe}]
           \cup [from : {<<">", ">">>}, to : {OpGt}]
           \cup [from : {<<"<", "<">>}, to : {OpLt}]
           \cup [from : {<<">", "=", "=">>}, to : {OpGe}]
           \cup [from : {<<"<", "=", "=">>}, to : {OpLe}]
           \cup [from : {<<"+", "+">>}, to : {<<"+">>}]
           \cup [from : {<<"-", "-">>}, to : {<<"-">>}]
           \cup [from : {<<"%", "%">>}, to : {<<"%">>}]

\* normalize_operator returning the stripped token without consulting alt_map
normalize_operator_without_aliases(op) == Strip(op)

normalize_operator(op) ==
  Only({
    IF \E m \in alt_map : m.from = o
    THEN (CHOOSE m \in alt_map : m.from = o).to
    ELSE o
  : o \in {Strip(op)} })

\* resolve_operator(op): [ok, op]; ok = FALSE is OperatorError
resolve_operator(op) ==
  Only({
  Only({
    IF normalized \notin SUPPORTED_OPERATORS
    THEN [ok |-> FALSE, op |-> normalized]
    ELSE [ok |-> TRUE, op |-> normalized]
  : normalized \in {normalize_operator(original)} })
  : original \in {Strip(op)} })

\* the function objects of lines 9-22
PyFunction(name) == [t |-> "function", name |-> name]

\* SUPPORTED_OPERATORS[op], lines 25-35
OperatorFunction(op) ==
  CASE op = OpEq -> PyFunction("op_eq")
    [] op = OpNe -> PyFunction("op_ne")
    [] op = OpLt -> PyFunction("op_lt")
    [] op = OpLe -> PyFunction("op_le")
    [] op = OpGt -> PyFunction("op_gt")
    [] op = OpGe -> PyFunction("op_ge")
    [] op = OpIn -> PyFunction("op_in")
    [] op = OpNotIn -> PyFunction("op_not_in")
    [] op = OpMatches -> PyFunction("op_matches")

\* a call of normalize_operator(op)
NormalizeOperatorCall(op) == Ret(PyStr(normalize_operator(op)))

\* a call of resolve_operator(op): the function, or OperatorError naming both forms
ResolveOperatorCall(op) ==
  Only({
    IF r.ok THEN Ret(OperatorFunction(r.op))
    ELSE Raise("OperatorError", "unsupported_comparison_operator",
               [original |-> Strip(op), normalized |-> r.op])
  : r \in {resolve_operator(op)} })

-----------------------------------------------------------------------------
(* src/utils/validation_helpers.py *)

\* is_valid_numeric_string(s): float(s) succeeds
is_valid_numeric_string(v) ==
  CASE v.t \in {"list", "dict"} -> FALSE
    [] v.t = "str" -> FloatParse(v.s).ok
    [] OTHER -> NumberToFloat(v).ok

-----------------------------------------------------------------------------
(* src/validation/expression_utils.py *)

Keywords == {SeqLowerTrue, SeqLowerFalse, SeqLowerNull, SeqLowerNone}

normalize_quotes(expr) ==
  Only({
  Only({
  Only({
  Only({
    Replace(e3, <<"\"", "\"">>, <<"\"">>) : e3 \in {Replace(e2, <<"'", "'">>, <<"'">>)} })
  : e2 \in {Replace(e1, <<"\"", "\"", "\"">>, <<"\"">>)} })
  : e1 \in {Replace(e0, <<"'", "'", "'">>, <<"'">>)} })
  : e0 \in {Strip(expr)} })

\* an unsigned Python number token: [ok, v]
NumberToken(body) ==
  Only({
    IF IsDigitGroup(b)
    THEN (IF b[1] # "0" \/ \A i \in 1..Len(b) : b[i] \in {"0", "_"}
          THEN [ok |-> TRUE, v |-> PyInt(GroupValue(b))]
          ELSE [ok |-> FALSE, v |-> None])
    ELSE Only({
           IF d.ok THEN [ok |-> TRUE, v |-> PyFloat(d.x)]
           ELSE [ok |-> FALSE, v |-> None]
         : d \in {DecimalParse(b)} })
  : b \in {Lower(body)} })

\* a number with an optional unary sign: [ok, v]
SignedNumber(t) ==
  Only({
  Only({
    IF ~tok.ok \/ SignOf(t) = 1 THEN tok
    ELSE [ok |-> TRUE,
          v |-> IF tok.v.t = "int" THEN PyInt(-tok.v.n) ELSE PyFloat(-tok.v.x)]
  : tok \in {NumberToken(body)} })
  : body \in {IF HasSign(t) THEN LStrip(Tail(t)) ELSE t} })

\* the items of a bracketed list text, a trailing comma allowed
ListItems(inner) ==
  Only({
    IF Strip(inner) = <<>> THEN <<>>
    ELSE IF Len(parts) > 1 /\ Strip(parts[Len(parts)]) = <<>>
         THEN SubSeq(parts, 1, Len(parts) - 1)
         ELSE parts
  : parts \in {Split(inner, ",")} })

\* ast.literal_eval(val) over the literal forms the model's strings can hold
\* (numbers and lists of numbers): [ok, v]; ok = FALSE is an exception
literal_eval(val) ==
  Only({
    IF StartsWith(t, "[") /\ EndsWith(t, "]") /\ Len(t) >= 2
    THEN Only({
         Only({
           IF \A i \in 1..Len(items) : parsed[i].ok
           THEN [ok |-> TRUE,
                 v |-> PyList([i \in 1..Len(items) |-> parsed[i].v])]
           ELSE [ok |-> FALSE, v |-> None]
         : parsed \in {[i \in 1..Len(items) |-> Only({ SignedNumber(item) : item \in {Strip(items[i])} })]} })
         : items \in {ListItems(SubSeq(t, 2, Len(t) - 1))} })
    ELSE SignedNumber(t)
  : t \in {Strip(val)} })

\* parse_literal reading the content of a quoted string as a number when it is one
parse_literal_reading_quoted_digits(value) ==
  IF value.t # "str" THEN Ret(value)
  ELSE Only({
       Only({
         IF val_lower = SeqLowerTrue THEN Ret(PyBool(TRUE))
         ELSE IF val_lower = SeqLowerFalse THEN Ret(PyBool(FALSE))
         ELSE IF val_lower \in {SeqLowerNull, SeqLowerNone} THEN Ret(None)
         ELSE IF \/ StartsWith(val, "'") /\ EndsWith(val, "'")
                 \/ StartsWith(val, "\"") /\ EndsWith(val, "\"")
              THEN (IF IsDigitStr(SubSeq(val, 2, Len(val) - 1)) /\ IntParse(SubSeq(val, 2, Len(val) - 1)).ok
                    THEN Ret(PyInt(IntParse(SubSeq(val, 2, Len(val) - 1)).n))
                    ELSE Ret(PyStr(SubSeq(val, 2, Len(val) - 1))))
         ELSE IF IsDigitStr(val)
              THEN Only({
                     IF number.ok THEN Ret(PyInt(number.n))
                     ELSE Raise("ValueError", "invalid_int_literal", val)
                   : number \in {IntParse(val)} })
         ELSE Only({
                IF ev.ok THEN Ret(ev.v) ELSE Ret(PyStr(val)) : ev \in {literal_eval(val)} })
       : val_lower \in {Lower(val)} })
       : val \in {Strip(normalize_quotes(value.s))} })

\* parse_literal(value): Ret(value) or the ValueError of int()
parse_literal(value) ==
  IF value.t # "str" THEN Ret(value)
  ELSE Only({
       Only({
         IF val_lower = SeqLowerTrue THEN Ret(PyBool(TRUE))
         ELSE IF val_lower = SeqLowerFalse THEN Ret(PyBool(FALSE))
         ELSE IF val_lower \in {SeqLowerNull, SeqLowerNone} THEN Ret(None)
         ELSE IF \/ StartsWith(val, "'") /\ EndsWith(val, "'")
                 \/ StartsWith(val, "\"") /\ EndsWith(val, "\"")
              THEN Ret(PyStr(SubSeq(val, 2, Len(val) - 1)))
         ELSE IF IsDigitStr(val)
              THEN Only({
                     IF number.ok THEN Ret(PyInt(number.n))
                     ELSE Raise("ValueError", "invalid_int_literal", val)
                   : number \in {IntParse(val)} })
         ELSE Only({
                IF ev.ok THEN Ret(ev.v) ELSE Ret(PyStr(val)) : ev \in {literal_eval(val)} })
       : val_lower \in {Lower(val)} })
       : val \in {Strip(normalize_quotes(value.s))} })

is_literal(token) ==
  Only({
    \/ tk \in Keywords
    \/ IsNumericStr(tk)
    \/ StartsWith(tk, "'") /\ EndsWith(tk, "'")
    \/ StartsWith(tk, "\"") /\ EndsWith(tk, "\"")
  : tk \in {Lower(Strip(token))} })

\* is_symbolic_reference(val) for a str val
is_symbolic_reference(s) ==
  Only({
    /\ Lower(val) \notin Keywords
    /\ ~FloatParse(val).ok
    /\ (Contains(val, ".") \/ Contains(val, "[") \/ Contains(val, "]"))
  : val \in {Strip(s)} })

IsSymbolicValue(v) == v.t = "str" /\ is_symbolic_reference(v.s)

-----------------------------------------------------------------------------
(* src/rules/rule_engine_utils.py *)

REE(kind, detail) == Raise("RuleEvaluationError", kind, detail)

RECURSIVE WalkKeys(_, _, _, _)
WalkKeys(value, keys, i, path) ==
  IF i > Len(keys) THEN Ret(value)
  ELSE IF value.t # "dict" THEN REE("expected_dict", path)
  ELSE IF keys[i] \notin DOMAIN value.d THEN REE("missing_key", path)
  ELSE IF value.d[keys[i]].t = "none" /\ keys[i] # keys[Len(keys)]
       THEN REE("null_value", path)
  ELSE WalkKeys(value.d[keys[i]], keys, i + 1, path)

get_nested_value(payload, path) ==
  Only({ WalkKeys(payload, keys, 1, path) : keys \in {Split(path, ".")} })

-----------------------------------------------------------------------------
(* src/utils/coercion.py *)

IsInstance(v, T) ==
  CASE T = "bool" -> v.t = "bool"
    [] T = "int" -> v.t \in {"int", "bool"}
    [] T = "float" -> v.t = "float"
    [] T = "str" -> v.t = "str"

\* target_type(value), None when the constructor raises
RawCast(v, T) ==
  CASE T = "bool" -> PyBool(Truthy(v))
    [] T = "int" ->
         IF v.t = "str"
         THEN Only({ IF p.ok THEN PyInt(p.n) ELSE None : p \in {IntParse(v.s)} })
         ELSE Only({ IF p.ok THEN PyInt(p.n) ELSE None : p \in {NumberToInt(v)} })
    [] T = "float" ->
         IF v.t = "str"
         THEN Only({ IF p.ok THEN p.v ELSE None : p \in {FloatParse(v.s)} })
         ELSE Only({ IF p.ok THEN p.v ELSE None : p \in {NumberToFloat(v)} })
    [] T = "str" -> PyStr(StrOf(v))

\* relaxed_cast giving None for a string that is no boolean word when cast to bool
relaxed_cast_rejecting_other_strings(value, T) ==
  IF IsInstance(value, T) THEN value
  ELSE IF value.t = "str"
  THEN Only({
         CASE T = "bool" ->
                 IF stripped \in {SeqLowerTrue, <<"1">>} THEN PyBool(TRUE)
                 ELSE IF stripped \in {SeqLowerFalse, <<"0">>} THEN PyBool(FALSE)
                 ELSE None
            [] T = "int" ->
                 IF IsDigitStr(stripped)
                 THEN Only({
                        IF p.ok THEN PyInt(p.n) ELSE None : p \in {IntParse(stripped)} })
                 ELSE RawCast(value, T)
            [] T = "float" ->
                 Only({
                   IF p.ok
                   THEN (IF p.v.k = "nan" THEN None ELSE p.v)
                   ELSE RawCast(value, T)
                 : p \in {FloatParse(stripped)} })
            [] OTHER -> RawCast(value, T)
       : stripped \in {Lower(Strip(value.s))} })
  ELSE RawCast(value, T)

relaxed_cast(value, T) ==
  IF IsInstance(value, T) THEN value
  ELSE IF value.t = "str"
  THEN Only({
         CASE T = "bool" ->
                 IF stripped \in {SeqLowerTrue, <<"1">>} THEN PyBool(TRUE)
                 ELSE IF stripped \in {SeqLowerFalse, <<"0">>} THEN PyBool(FALSE)
                 ELSE RawCast(value, T)
            [] T = "int" ->
                 IF IsDigitStr(stripped)
                 THEN Only({
                        IF p.ok THEN PyInt(p.n) ELSE None : p \in {IntParse(stripped)} })
                 ELSE RawCast(value, T)
            [] T = "float" ->
                 Only({
                   IF p.ok
                   THEN (IF p.v.k = "nan" THEN None ELSE p.v)
                   ELSE RawCast(value, T)
                 : p \in {FloatParse(stripped)} })
            [] OTHER -> RawCast(value, T)
       : stripped \in {Lower(Strip(value.s))} })
  ELSE RawCast(value, T)

SeqNotANumber == <<"n","o","t","_","a","_","n","u","m","b","e","r">>
UnsafeTokens == <<SeqNan, SeqNotANumber>>
CastOrder == <<"bool", "int", "float", "str">>

\* IsUnsafe comparing the operand as written, neither stripped nor lowercased
IsUnsafeAsWritten(v, unsafe) == v.t = "str" /\ v.s = unsafe

IsUnsafe(v, unsafe) == v.t = "str" /\ Lower(Strip(v.s)) = unsafe

\* the first loop of relaxed_equals testing the left operand only
UnsafeFromTestingLhsOnly(lhs, rhs, i) ==
  \E j \in i..Len(UnsafeTokens) : IsUnsafe(lhs, UnsafeTokens[j])

\* the first loop of relaxed_equals: TRUE when an operand is rejected
RECURSIVE UnsafeFrom(_, _, _)
UnsafeFrom(lhs, rhs, i) ==
  IF i > Len(UnsafeTokens) THEN FALSE
  ELSE IF IsUnsafe(lhs, UnsafeTokens[i]) THEN TRUE
  ELSE IF IsUnsafe(rhs, UnsafeTokens[i]) THEN TRUE
  ELSE UnsafeFrom(lhs, rhs, i + 1)

\* CastsMatch without the `is not None` tests
CastsMatchWithoutNoneTest(lhs, rhs, T) ==
  Only({
  Only({
    PyEq(lhs_cast, rhs_cast) : rhs_cast \in {relaxed_cast(rhs, T)} })
  : lhs_cast \in {relaxed_cast(lhs, T)} })

CastsMatch(lhs, rhs, T) ==
  Only({
  Only({
    lhs_cast.t # "none" /\ rhs_cast.t # "none" /\ PyEq(lhs_cast, rhs_cast) : rhs_cast \in {relaxed_cast(rhs, T)} })
  : lhs_cast \in {relaxed_cast(lhs, T)} })

\* the second loop of relaxed_equals, from target type i on
RECURSIVE MatchFrom(_, _, _)
MatchFrom(lhs, rhs, i) ==
  IF i > Len(CastOrder) THEN FALSE
  ELSE IF CastsMatch(lhs, rhs, CastOrder[i]) THEN TRUE
  ELSE MatchFrom(lhs, rhs, i + 1)

relaxed_equals(lhs, rhs) ==
  IF UnsafeFrom(lhs, rhs, 1) THEN FALSE ELSE MatchFrom(lhs, rhs, 1)

-----------------------------------------------------------------------------
(* src/rules/rule_engine_coercion.py *)

Coerced(l, r) == [ok |-> TRUE, left |-> l, right |-> r]
CoercionFailed(cause) ==
  [ok |-> FALSE, exc |-> "RuleEvaluationError", kind |-> "type_coercion_failed",
   detail |-> cause]

IsIntOrFloat(v) == v.t \in {"int", "float"}

\* type(n)(s): the numeric type of n applied to the str s; [ok, v]
CastLike(n, s) ==
  IF n.t = "int"
  THEN Only({ [ok |-> p.ok, v |-> PyInt(p.n)] : p \in {IntParse(s.s)} })
  ELSE Only({ [ok |-> p.ok, v |-> p.v] : p \in {FloatParse(s.s)} })

\* the int-then-float loop over two numeric-valid strings
BothStrings(left, right) ==
  IF is_valid_numeric_string(left) /\ is_valid_numeric_string(right)
  THEN Only({
       Only({
         IF li.ok /\ ri.ok
         THEN Coerced(PyInt(li.n), PyInt(ri.n))
         ELSE Coerced(FloatParse(left.s).v, FloatParse(right.s).v)
       : ri \in {IntParse(right.s)} })
       : li \in {IntParse(left.s)} })
  ELSE Coerced(left, right)

_coerce_types_for_comparison(left, right) ==
  IF left.t = "none" \/ right.t = "none" THEN Coerced(left, right)
  ELSE IF IsSymbolicValue(left) THEN CoercionFailed("unresolved_reference")
  ELSE IF IsSymbolicValue(right) THEN CoercionFailed("unresolved_reference")
  ELSE IF left.t = "bool" \/ right.t = "bool"
       THEN Coerced(PyBool(Truthy(left)), PyBool(Truthy(right)))
  ELSE IF left.t = "str" /\ IsIntOrFloat(right) /\ ~is_valid_numeric_string(left)
       THEN Coerced(left, right)
  ELSE IF right.t = "str" /\ IsIntOrFloat(left) /\ ~is_valid_numeric_string(right)
       THEN Coerced(left, right)
  ELSE IF IsIntOrFloat(left) /\ right.t = "str" /\ is_valid_numeric_string(right)
       THEN Only({
              IF cast.ok THEN Coerced(left, cast.v)
              ELSE CoercionFailed("invalid_literal")
            : cast \in {CastLike(left, right)} })
  ELSE IF IsIntOrFloat(right) /\ left.t = "str" /\ is_valid_numeric_string(left)
       THEN Only({
              IF cast.ok THEN Coerced(cast.v, right)
              ELSE CoercionFailed("invalid_literal")
            : cast \in {CastLike(right, left)} })
  ELSE IF left.t = "str" /\ right.t = "str" THEN BothStrings(left, right)
  ELSE Coerced(left, right)

-----------------------------------------------------------------------------
(* configs/rule_engine_defaults.py *)

SeqStrict == <<"s","t","r","i","c","t">>
SeqRelaxed == <<"r","e","l","a","x","e","d">>

DEFAULT_TYPE_CHECK_MODE == PyStr(SeqStrict)
SUPPORTED_TYPE_MODES == {PyStr(SeqStrict), PyStr(SeqRelaxed)}

\* get_type_check_mode(profile_override): Ret(mode), or the TypeError of hashing
\* an unhashable override, or the ValueError of an unsupported mode
get_type_check_mode(profile_override) ==
  LET mode == IF Truthy(profile_override) THEN profile_override
              ELSE DEFAULT_TYPE_CHECK_MODE
  IN IF mode.t \in {"list", "dict"} THEN Raise("TypeError", "unhashable", mode)
     ELSE IF mode \notin SUPPORTED_TYPE_MODES THEN Raise("ValueError", "invalid_mode", mode)
     ELSE Ret(mode)

-----------------------------------------------------------------------------
(* src/rules/rule_engine.py *)

BoolRet(b) == Ret(PyBool(b))

\* the literal-only path comparing the two literals with relaxed_equals
FastPathByRelaxedEquals(lhs_path, operator_str, rhs_literal) ==
  Only({
    IF ~lhs_val.ok THEN lhs_val
    ELSE Only({
      IF ~rhs_val.ok THEN rhs_val
      ELSE BoolRet(relaxed_equals(lhs_val.val, rhs_val.val))
         : rhs_val \in {parse_literal(PyStr(rhs_literal))} })
  : lhs_val \in {parse_literal(PyStr(lhs_path))} })

\* rule_engine.py lines 56-64: both sides parsed as literals, compared directly
FastPath(lhs_path, operator_str, rhs_literal) ==
  Only({
    IF ~lhs_val.ok THEN lhs_val
    ELSE Only({
      IF ~rhs_val.ok THEN rhs_val
      ELSE Only({
        IF ~compare_fn.ok THEN REE("literal_comparison_failed", operator_str)
        ELSE Only({
          IF ~cmp.ok THEN REE("literal_comparison_failed", operator_str)
          ELSE BoolRet(cmp.b)
             : cmp \in {ApplyOperator(compare_fn.op, lhs_val.val, rhs_val.val)} })
           : compare_fn \in {resolve_operator(operator_str)} })
         : rhs_val \in {parse_literal(PyStr(rhs_literal))} })
  : lhs_val \in {parse_literal(PyStr(lhs_path))} })

\* rule_engine.py lines 82-99: the rhs operand, [ok, val, from_payload] or the error
ResolveRhs(rhs_literal, payload, relaxed_type_check) ==
  Only({
    IF parsed.ok THEN [ok |-> TRUE, val |-> parsed.val, from_payload |-> FALSE]
    ELSE IF relaxed_type_check
         THEN Only({
                IF looked.ok
                THEN [ok |-> TRUE, val |-> looked.val, from_payload |-> TRUE]
                ELSE [ok |-> TRUE, val |-> None, from_payload |-> FALSE]
              : looked \in {get_nested_value(payload, rhs_literal)} })
         ELSE REE("invalid_rhs_literal", rhs_literal)
  : parsed \in {parse_literal(PyStr(rhs_literal))} })

\* the type stage with the strict branch making no type comparison
TypeStageWithoutStrictCheck(lhs_value, rhs_value, from_payload, strict_type_check, relaxed_type_check) ==
  IF strict_type_check
  THEN Coerced(lhs_value, rhs_value)
  ELSE IF relaxed_type_check
       THEN (IF ~from_payload
             THEN Only({
                    IF c.ok THEN c ELSE REE("coercion_error", c.detail) : c \in {_coerce_types_for_comparison(lhs_value, rhs_value)} })
             ELSE Coerced(lhs_value, rhs_value))
       ELSE (IF lhs_value.t # rhs_value.t
             THEN REE("type_mismatch_default", <<lhs_value.t, rhs_value.t>>)
             ELSE Coerced(lhs_value, rhs_value))

\* rule_engine.py lines 110-126: the type stage, [ok, left, right] or the error
TypeStage(lhs_value, rhs_value, from_payload, strict_type_check, relaxed_type_check) ==
  IF strict_type_check
  THEN (IF lhs_value.t # rhs_value.t
        THEN REE("incompatible_types", <<lhs_value.t, rhs_value.t>>)
        ELSE Coerced(lhs_value, rhs_value))
  ELSE IF relaxed_type_check
       THEN (IF ~from_payload
             THEN Only({
                    IF c.ok THEN c ELSE REE("coercion_error", c.detail) : c \in {_coerce_types_for_comparison(lhs_value, rhs_value)} })
             ELSE Coerced(lhs_value, rhs_value))
       ELSE (IF lhs_value.t # rhs_value.t
             THEN REE("type_mismatch_default", <<lhs_value.t, rhs_value.t>>)
             ELSE Coerced(lhs_value, rhs_value))

\* the final comparison applying the requested operator in every mode
FinalComparisonByOperator(compare_op, l, r, relaxed_type_check) ==
  Only({
    IF ~cmp.ok THEN REE("comparison_failed", compare_op)
    ELSE BoolRet(cmp.b)
  : cmp \in {ApplyOperator(compare_op, l, r)} })

\* rule_engine.py lines 128-138: the final comparison
FinalComparison(compare_op, l, r, relaxed_type_check) ==
  IF relaxed_type_check THEN BoolRet(relaxed_equals(l, r))
  ELSE Only({
         IF ~cmp.ok THEN REE("comparison_failed", compare_op)
         ELSE BoolRet(cmp.b)
       : cmp \in {ApplyOperator(compare_op, l, r)} })

\* lines 66-138 with the path error of the lhs propagating in every mode
NormalPathPropagating(lhs_path, operator_str, rhs_literal, payload, strict_type_check, relaxed_type_check) ==
  Only({
    IF ~lhs_res.ok THEN lhs_res
    ELSE
  Only({
  Only({
    IF ~compare_fn.ok THEN REE("operator_resolution_failed", operator_str)
    ELSE
  Only({
    IF ~rhs_res.ok THEN rhs_res
    ELSE
  Only({
    IF /\ relaxed_type_check
       /\ \/ lhs_value.t = "none" \/ rhs_value.t = "none"
          \/ is_symbolic_reference(lhs_path) \/ is_symbolic_reference(rhs_literal)
    THEN BoolRet(relaxed_equals(lhs_value, rhs_value))
    ELSE
  Only({
    IF ~staged.ok THEN staged
    ELSE FinalComparison(compare_fn.op, staged.left, staged.right,
                         relaxed_type_check)
  : staged \in {TypeStage(lhs_value, rhs_value, rhs_res.from_payload, strict_type_check, relaxed_type_check)} })
  : rhs_value \in {rhs_res.val} })
  : rhs_res \in {ResolveRhs(rhs_literal, payload, relaxed_type_check)} })
  : compare_fn \in {resolve_operator(operator_str)} })
  : lhs_value \in {IF lhs_res.ok THEN lhs_res.val ELSE None} })
  : lhs_res \in {get_nested_value(payload, lhs_path)} })

\* rule_engine.py lines 66-138
NormalPath(lhs_path, operator_str, rhs_literal, payload, strict_type_check, relaxed_type_check) ==
  Only({
    IF ~lhs_res.ok /\ ~relaxed_type_check THEN lhs_res
    ELSE
  Only({
  Only({
    IF ~compare_fn.ok THEN REE("operator_resolution_failed", operator_str)
    ELSE
  Only({
    IF ~rhs_res.ok THEN rhs_res
    ELSE
  Only({
    IF /\ relaxed_type_check
       /\ \/ lhs_value.t = "none" \/ rhs_value.t = "none"
          \/ is_symbolic_reference(lhs_path) \/ is_symbolic_reference(rhs_literal)
    THEN BoolRet(relaxed_equals(lhs_value, rhs_value))
    ELSE
  Only({
    IF ~staged.ok THEN staged
    ELSE FinalComparison(compare_fn.op, staged.left, staged.right,
                         relaxed_type_check)
  : staged \in {TypeStage(lhs_value, rhs_value, rhs_res.from_payload, strict_type_check, relaxed_type_check)} })
  : rhs_value \in {rhs_res.val} })
  : rhs_res \in {ResolveRhs(rhs_literal, payload, relaxed_type_check)} })
  : compare_fn \in {resolve_operator(operator_str)} })
  : lhs_value \in {IF lhs_res.ok THEN lhs_res.val ELSE None} })
  : lhs_res \in {get_nested_value(payload, lhs_path)} })

_evaluate_expression(expression, payload, strict_type_check, relaxed_type_check) ==
  Only({
    IF Len(parts) # 3 THEN REE("unsupported_format", expression)
    ELSE IF parts[2] \notin SUPPORTED_OPERATORS
         THEN REE("unsupported_operator", parts[2])
    ELSE IF ~Truthy(payload) /\ is_literal(parts[1]) /\ is_literal(parts[3])
         THEN FastPath(parts[1], parts[2], parts[3])
    ELSE NormalPath(parts[1], parts[2], parts[3], payload,
                    strict_type_check, relaxed_type_check)
  : parts \in {SplitMax(Strip(expression), " ", 3)} })

\* rule.get(key)
RuleGet(rule, key) == IF key \in DOMAIN rule THEN rule[key] ELSE None

\* the mode resolution falling back to relaxed when the override is invalid
ResolvedModeFailingOpen(rule) ==
  Only({
    IF m.ok THEN m.val ELSE PyStr(SeqRelaxed) : m \in {get_type_check_mode(RuleGet(rule, "type_check_mode"))} })

\* rule_engine.py lines 146-156: the mode when neither flag is supplied
ResolvedMode(rule) ==
  Only({
    IF m.ok THEN m.val ELSE PyStr(SeqStrict) : m \in {get_type_check_mode(RuleGet(rule, "type_check_mode"))} })

\* evaluate_rule testing only `not expression`, a non-string "if" counting as not met
evaluate_rule_without_isinstance(rule, payload, strict_type_check, relaxed_type_check) ==
  Only({
  Only({
  Only({
  Only({
    IF ~Truthy(expression) THEN BoolRet(TRUE)
    ELSE IF expression.t # "str" THEN BoolRet(FALSE)
    ELSE _evaluate_expression(expression.s, payload, strict, relaxed)
  : relaxed \in {IF mode.t = "none" THEN relaxed_type_check ELSE mode = PyStr(SeqRelaxed)} })
  : strict \in {IF mode.t = "none" THEN strict_type_check ELSE mode = PyStr(SeqStrict)} })
  : mode \in {IF strict_type_check \/ relaxed_type_check THEN None ELSE ResolvedMode(rule)} })
  : expression \in {RuleGet(rule, "if")} })

evaluate_rule(rule, payload, strict_type_check, relaxed_type_check) ==
  Only({
  Only({
  Only({
  Only({
    IF ~Truthy(expression) \/ expression.t # "str" THEN BoolRet(TRUE)
    ELSE _evaluate_expression(expression.s, payload, strict, relaxed)
  : relaxed \in {IF mode.t = "none" THEN relaxed_type_check ELSE mode = PyStr(SeqRelaxed)} })
  : strict \in {IF mode.t = "none" THEN strict_type_check ELSE mode = PyStr(SeqStrict)} })
  : mode \in {IF strict_type_check \/ relaxed_type_check THEN None ELSE ResolvedMode(rule)} })
  : expression \in {RuleGet(rule, "if")} })

-----------------------------------------------------------------------------
(* src/rules/rule_config_parser.py *)

\* what a path names: no file, a file yaml.safe_load rejects, or a file with the
\* value yaml.safe_load returns for it
MissingFile == [state |-> "missing"]
UnparseableFile == [state |-> "unparseable"]
ParsedFile(content) == [state |-> "parsed", content |-> content]

\* open(path, "r") and yaml.safe_load(f): the content, or the exception raised
ReadDocument(file) ==
  CASE file.state = "missing" -> Raise("FileNotFoundError", "no_such_file", <<>>)
    [] file.state = "unparseable" -> Raise("YAMLError", "unparseable", <<>>)
    [] file.state = "parsed" -> Ret(file.content)

KeyRules == <<"r", "u", "l", "e", "s">>
KeyIf == <<"i", "f">>
KeyRaise == <<"r", "a", "i", "s", "e">>
KeyStrictTypeCheck == <<"s", "t", "r", "i", "c", "t", "_", "t", "y", "p", "e", "_", "c", "h", "e", "c", "k">>
KeyTypeCheckMode == <<"t", "y", "p", "e", "_", "c", "h", "e", "c", "k", "_", "m", "o", "d", "e">>

\* value.get(key, default): AttributeError when the value is not a dict
PyGet(value, key, default) ==
  IF value.t # "dict" THEN Raise("AttributeError", "no_attribute_get", value.t)
  ELSE Ret(IF key \in DOMAIN value.d THEN value.d[key] ELSE default)

\* the enriched rule with the default message counting records from 1
EnrichedOneBased(rule, i) ==
  PyDict((KeyIf :> rule.d[KeyIf])
         @@ (KeyRaise :> PyGet(rule, KeyRaise, PyStr(<<"R", "u", "l", "e", " ">> \o IntToStr(i + 1) \o <<" ", "f", "a", "i", "l", "e", "d">>)).val)
         @@ (KeyStrictTypeCheck :> PyBool(Truthy(PyGet(rule, KeyStrictTypeCheck, PyBool(FALSE)).val))))

\* lines 47, 55-59: the enriched rule built from record i (0-based)
Enriched(rule, i) ==
  PyDict((KeyIf :> rule.d[KeyIf])
         @@ (KeyRaise :> PyGet(rule, KeyRaise, PyStr(<<"R", "u", "l", "e", " ">> \o IntToStr(i) \o <<" ", "f", "a", "i", "l", "e", "d">>)).val)
         @@ (KeyStrictTypeCheck :> PyBool(Truthy(PyGet(rule, KeyStrictTypeCheck, PyBool(FALSE)).val))))

\* lines 45-67: the loop over raw_rules from position i (1-based) on
RECURSIVE EnrichFrom(_, _, _)
EnrichFrom(raw_rules, i, enriched_rules) ==
  IF i > Len(raw_rules) THEN Ret(PyList(enriched_rules))
  ELSE IF raw_rules[i].t # "dict"
       THEN Raise("AttributeError", "no_attribute_get", raw_rules[i].t)
  ELSE IF PyGet(raw_rules[i], KeyIf, None).val.t # "str"
       THEN EnrichFrom(raw_rules, i + 1, enriched_rules)
  ELSE EnrichFrom(raw_rules, i + 1, Append(enriched_rules, Enriched(raw_rules[i], i - 1)))

\* load_rule_profile(path), the path naming `file`
load_rule_profile(file) ==
  Only({
    IF ~content.ok THEN Raise("RuleConfigError", "failed_to_load", content)
    ELSE Only({
           IF ~raw_rules.ok THEN raw_rules
           ELSE IF raw_rules.val.t # "list"
                THEN Raise("RuleConfigError", "invalid_rule_structure", raw_rules.val.t)
           ELSE EnrichFrom(raw_rules.val.items, 1, <<>>)
         : raw_rules \in {PyGet(content.val, KeyRules, PyList(<<>>))} })
  : content \in {ReadDocument(file)} })

-----------------------------------------------------------------------------
(* src/validation/validation_profile_enforcer.py *)

VPE(kind, detail) == Raise("ValidationProfileError", kind, detail)

SeqRulePrefix == <<"[", "R", "u", "l", "e", " ">>
SeqRuleClose == <<"]", " ">>
SeqValidationRule == <<"V", "a", "l", "i", "d", "a", "t", "i", "o", "n", " ", "r", "u", "l", "e", " ">>
SeqFailed == <<" ", "f", "a", "i", "l", "e", "d">>
SeqEvaluationErrorFor == <<" ", "emdash", " ", "E", "v", "a", "l", "u", "a", "t", "i", "o", "n", " ", "e", "r", "r", "o", "r", " ", "f", "o", "r", " ", "'">>

\* f"[Rule {i}] {message}"
RuleText(i, message) == SeqRulePrefix \o IntToStr(i) \o SeqRuleClose \o StrOf(message)

\* rule.get("raise", f"Validation rule {i} failed")
RuleMessage(rule, i) ==
  IF "raise" \in DOMAIN rule THEN rule["raise"]
  ELSE PyStr(SeqValidationRule \o IntToStr(i) \o SeqFailed)

\* validation_profile_enforcer.py lines 63-73: the rules substituted for an empty list
FallbackRules ==
  << [if |-> PyStr(<<"r", "e", "s", "o", "l", "u", "t", "i", "o", "n", ".", "d", "x", " ", "=", "=", " ", "N", "o", "n", "e">>),
      raise |-> PyStr(<<"M", "i", "s", "s", "i", "n", "g", " ", "d", "x", " ", "i", "n", " ", "r", "e", "s", "o", "l", "u", "t", "i", "o", "n">>)],
     [if |-> PyStr(<<"b", "o", "u", "n", "d", "i", "n", "g", "_", "b", "o", "x", " ", "=", "=", " ", "N", "o", "n", "e">>),
      raise |-> PyStr(<<"M", "i", "s", "s", "i", "n", "g", " ", "b", "o", "u", "n", "d", "i", "n", "g", "_", "b", "o", "x", " ", "d", "e", "f", "i", "n", "i", "t", "i", "o", "n">>)] >>

EffectiveRules(source, enabled) ==
  IF source = <<>> /\ enabled THEN FallbackRules ELSE source

\* the key each field of a rule is stored under in a loaded document
RuleKeys == ("if" :> KeyIf) @@ ("raise" :> KeyRaise) @@ ("type_check_mode" :> KeyTypeCheckMode)

\* an item the loop of line 75 is given, as the loop reads it: the fields of a
\* mapping, or the item itself when it has no `get`
RuleRecord(v) ==
  IF v.t # "dict" THEN [non_mapping |-> v]
  ELSE [k \in {f \in DOMAIN RuleKeys : RuleKeys[f] \in DOMAIN v.d} |-> v.d[RuleKeys[k]]]

\* the keys of a dict in one order (each of them is a str)
KeySeq(d) == CHOOSE q \in [1..Cardinality(DOMAIN d) -> DOMAIN d] : {q[i] : i \in DOMAIN q} = DOMAIN d

\* `for i, rule in enumerate(rules)`, line 75: the items iterated, or TypeError
Iterate(value) ==
  CASE value.t = "list" -> Ret([i \in DOMAIN value.items |-> RuleRecord(value.items[i])])
    [] value.t = "str" -> Ret([i \in DOMAIN value.s |-> RuleRecord(PyStr(<<value.s[i]>>))])
    [] value.t = "dict" -> Ret([i \in 1..Cardinality(DOMAIN value.d) |-> RuleRecord(PyStr(KeySeq(value.d)[i]))])
    [] OTHER -> Raise("TypeError", "not_iterable", value.t)

\* lines 48-75 for a profile_source that is the path of `file`: the rules the
\* loop starts on, or the exception the call ends with before the first iteration
PathRules(file, enabled) ==
  Only({
    IF ~content.ok THEN Raise("RuntimeError", "failed_to_load", content)
    ELSE Only({
           IF ~loaded.ok THEN Raise("RuntimeError", "failed_to_load", loaded)
           ELSE IF ~Truthy(loaded.val) /\ enabled THEN Ret(FallbackRules)
           ELSE Iterate(loaded.val)
         : loaded \in {PyGet(content.val, KeyRules, PyList(<<>>))} })
  : content \in {ReadDocument(file)} })

\* the loop iteration with a triggering rule recorded but not ending the loop
RuleStepContinuing(rule, i, payload) ==
  Only({
  Only({
    IF "non_mapping" \in DOMAIN rule
    THEN [act |-> "fail", exc |-> Raise("AttributeError", "no_attribute_get", rule.non_mapping.t)]
    ELSE IF ~Truthy(condition) THEN [act |-> "skip", exc |-> Ret(None)]
    ELSE
  Only({
    IF ~triggered.ok
    THEN (IF triggered.exc = "RuleEvaluationError"
          THEN [act |-> "raise",
                exc |-> VPE("evaluation_error",
                            [text |-> RuleText(i, message) \o SeqEvaluationErrorFor,
                             condition |-> condition, cause |-> triggered])]
          ELSE [act |-> "raise", exc |-> triggered])
    ELSE [act |-> "pass", exc |-> Ret(None)]
  : triggered \in {evaluate_rule(rule, payload, FALSE, FALSE)} })
  : message \in {RuleMessage(rule, i)} })
  : condition \in {RuleGet(rule, "if")} })

\* one iteration of the loop, lines 75-90: what it does with rule i (0-based)
\*   [act |-> "skip"], [act |-> "pass"], [act |-> "raise", exc |-> the exception], or
\*   [act |-> "fail", exc |-> the AttributeError of rule.get] for an item without `get`
RuleStep(rule, i, payload) ==
  Only({
  Only({
    IF "non_mapping" \in DOMAIN rule
    THEN [act |-> "fail", exc |-> Raise("AttributeError", "no_attribute_get", rule.non_mapping.t)]
    ELSE IF ~Truthy(condition) THEN [act |-> "skip", exc |-> Ret(None)]
    ELSE
  Only({
    IF ~triggered.ok
    THEN (IF triggered.exc = "RuleEvaluationError"
          THEN [act |-> "raise",
                exc |-> VPE("evaluation_error",
                            [text |-> RuleText(i, message) \o SeqEvaluationErrorFor,
                             condition |-> condition, cause |-> triggered])]
          ELSE [act |-> "raise", exc |-> triggered])
    ELSE IF Truthy(triggered.val)
         THEN [act |-> "raise",
               exc |-> VPE("triggered", [text |-> RuleText(i, message)])]
    ELSE [act |-> "pass", exc |-> Ret(None)]
  : triggered \in {evaluate_rule(rule, payload, FALSE, FALSE)} })
  : message \in {RuleMessage(rule, i)} })
  : condition \in {RuleGet(rule, "if")} })

-----------------------------------------------------------------------------
(* The inputs the calls are made with *)

MaxRules == 2

(* inputs of parse_literal *)
LiteralInputs ==
  {PyStr(<<"4", "2">>),
   PyStr(<<"0", "0", "1", "2", "3">>),
   PyStr(<<"3", ".", "1", "4">>),
   PyStr(<<"'", "h", "e", "l", "l", "o", "'">>),
   PyStr(<<"\"", "w", "o", "r", "l", "d", "\"">>),
   PyStr(<<"t", "r", "u", "e">>),
   PyStr(<<"T", "R", "U", "E">>),
   PyStr(<<"n", "u", "l", "l">>),
   PyStr(<<"N", "o", "n", "e">>),
   PyStr(<<>>),
   PyStr(<<" ", " ", " ">>),
   PyStr(<<"'", "x">>),
   PyStr(<<"[", "1", ",">>),
   PyStr(<<"[", "1", ",", "2", "]">>),
   PyStr(<<"sup2">>),
   PyStr(<<"half">>),
   PyStr(<<"a", "b", "c">>),
   PyStr(<<"a", ".", "b">>),
   PyStr(<<"-", "5">>),
   PyStr(<<"1", "e", "3">>),
   PyStr(<<"'", "'", "'", "q", "'", "'", "'">>),
   PyStr(<<"a", "'", "'", "b">>),
   PyStr(<<"'", "1", "2", "'">>),
   PyStr(<<" ", "7", " ">>),
   PyStr(<<"-", "0", "0", "7">>),
   PyStr(<<"1", "_", "0">>),
   PyStr(<<"i", "n", "f">>),
   PyStr(<<"'">>),
   PyStr(<<"'", "t", "r", "u", "e", "'">>),
   PyStr(<<"x", "]">>),
   PyStr(<<"'", "i", "t", "'", "'", "s", "'">>),
   PyStr(<<"\"", "f", "a", "l", "s", "e", "\"">>),
   PyStr(<<"'", "'">>),
   PyStr(<<" ", "'", " ", "x", " ", "'", " ">>),
   PyInt(5),
   None,
   PyBool(TRUE),
   PyFloat(2500)}

(* operands of relaxed_equals *)
Operands ==
  {None,
   PyBool(TRUE),
   PyBool(FALSE),
   PyInt(0),
   PyInt(1),
   PyInt(42),
   PyFloat(3140),
   PyFloat(0),
   PyStr(<<"t", "r", "u", "e">>),
   PyStr(<<"f", "a", "l", "s", "e">>),
   PyStr(<<"1">>),
   PyStr(<<"0">>),
   PyStr(<<"0", ".", "0">>),
   PyStr(<<"4", "2">>),
   PyStr(<<"3", ".", "1", "4">>),
   PyStr(<<"a", "b", "c">>),
   PyStr(<<"x", "y", "z">>),
   PyStr(<<>>),
   PyStr(<<"1", "2", "3">>),
   PyStr(<<"n", "a", "n">>),
   PyStr(<<" ", "N", "a", "N", " ">>),
   PyStr(<<"n", "o", "t", "_", "a", "_", "n", "u", "m", "b", "e", "r">>),
   PyStr(<<"N", "o", "t", "_", "A", "_", "N", "u", "m", "b", "e", "r">>),
   PyStr(<<"N", "o", "n", "e">>),
   PyStr(<<"sup2">>),
   PyStr(<<"i", "n", "f">>)}

(* expressions: operand variety under ==, operator variety over three operands *)
LhsTokens ==
  {<<"a", ".", "b">>,
   <<"k">>,
   <<"a", ".", "c">>,
   <<"a">>,
   <<"1">>,
   <<"'", "x", "'">>,
   <<"sup2">>,
   <<"t", "r", "u", "e">>,
   <<"-", "1">>}

RhsTokens ==
  {<<"1", "0", "0">>,
   <<"0">>,
   <<"t", "r", "u", "e">>,
   <<"f", "a", "l", "s", "e">>,
   <<"n", "u", "l", "l">>,
   <<"'", "1", "0", "0", "'">>,
   <<"a", "b", "c">>,
   <<"3", ".", "5">>,
   <<"k">>,
   <<"a", ".", "b">>,
   <<"sup2">>,
   <<"[", "1", ",", "2", "]">>,
   <<"1">>,
   <<"\"", "t", "r", "u", "e", "\"">>}

OperatorTokens ==
  {<<"=", "=">>,
   <<"!", "=">>,
   <<"<">>,
   <<"<", "=">>,
   <<">">>,
   <<">", "=">>,
   <<"i", "n">>,
   <<"m", "a", "t", "c", "h", "e", "s">>,
   <<"=", "=", "=">>,
   <<"+", "+">>}

OperatorLhsTokens ==
  {<<"a", ".", "b">>,
   <<"k">>,
   <<"1">>}

OperatorRhsTokens ==
  {<<"1", "0", "0">>,
   <<"'", "1", "0", "0", "'">>,
   <<"[", "1", ",", "2", "]">>}

MalformedExpressions ==
  {<<"x", "_", "i", "s", "_", "5">>,
   <<"a", ".", "b", " ", " ", "=", "=", " ", "1", "0", "0">>,
   <<"a", ".", "b", " ", "=", "=", " ", "1", "0", "0", " ", "2", "0", "0">>,
   <<"a", " ", "n", "o", "t", " ", "i", "n", " ", "b">>,
   <<>>}

PayloadValues ==
  {PyStr(<<"1", "0", "0">>),
   PyInt(100),
   PyStr(<<"3", ".", "5">>),
   PyFloat(3500),
   PyStr(<<"i", "n", "f">>),
   PyStr(<<"t", "r", "u", "e">>),
   PyBool(TRUE),
   PyStr(<<"f", "a", "l", "s", "e">>),
   PyBool(FALSE),
   PyInt(0),
   None,
   PyStr(<<"a", "b", "c">>),
   PyStr(<<"x", ".", "y">>)}

SpecialPayloads ==
  {EmptyDict,
   PyDict((<<"a">> :> None)),
   PyDict((<<"a">> :> EmptyDict)),
   PyDict((<<"a">> :> PyInt(5))),
   PyDict((<<"a">> :> PyDict((<<"b">> :> PyStr(<<"1", "0">>)))) @@ (<<"k">> :> PyStr(<<"2", "0">>)))}

(* rules and payloads of evaluate_rule *)
IfValues ==
  {None,
   PyStr(<<>>),
   PyInt(5),
   PyBool(TRUE),
   PyList(<<PyInt(1)>>),
   PyInt(0),
   PyStr(<<"k", " ", "=", "=", " ", "1", "0", "0">>),
   PyStr(<<"a", ".", "b", " ", "=", "=", " ", "1", "0", "0">>),
   PyStr(<<"x", "_", "i", "s", "_", "5">>)}

ModeValues ==
  {PyStr(<<"r", "e", "l", "a", "x", "e", "d">>),
   PyStr(<<"s", "t", "r", "i", "c", "t">>),
   PyStr(<<"b", "o", "g", "u", "s">>),
   PyInt(1),
   PyList(<<PyInt(1)>>),
   PyStr(<<>>),
   None}

RulePayloads ==
  {EmptyDict,
   PyDict((<<"a">> :> PyDict((<<"b">> :> PyStr(<<"1", "0", "0">>)))) @@ (<<"k">> :> PyStr(<<"1", "0", "0">>))),
   PyDict((<<"a">> :> PyDict((<<"b">> :> PyInt(100)))) @@ (<<"k">> :> PyInt(100))),
   PyDict((<<"a">> :> PyDict((<<"b">> :> PyStr(<<"a", "b", "c">>)))) @@ (<<"k">> :> PyStr(<<"a", "b", "c">>)))}

(* rules and payloads of enforce_profile *)
RulePool ==
  {[if |-> PyStr(<<"a", ".", "b", " ", "=", "=", " ", "1", "0", "0">>), raise |-> PyStr(<<"m", "1">>)],
   [if |-> PyStr(<<"k", " ", "=", "=", " ", "1", "0", "0">>), raise |-> PyStr(<<"m", "2">>), type_check_mode |-> PyStr(<<"r", "e", "l", "a", "x", "e", "d">>)],
   [raise |-> PyStr(<<"m", "3">>)],
   [if |-> PyStr(<<>>), raise |-> PyStr(<<"m", "4">>)],
   [if |-> PyInt(5), raise |-> PyStr(<<"m", "5">>)],
   [if |-> PyStr(<<"a", ".", "c", " ", "=", "=", " ", "1">>)],
   [if |-> PyStr(<<"sup2", " ", "=", "=", " ", "2">>), raise |-> PyStr(<<"m", "7">>)],
   [if |-> PyInt(0), raise |-> PyStr(<<"m", "8">>)]}

ProfilePayloads ==
  {EmptyDict,
   PyDict((<<"a">> :> PyDict((<<"b">> :> PyInt(100)))) @@ (<<"k">> :> PyInt(100))),
   PyDict((<<"a">> :> PyDict((<<"b">> :> PyStr(<<"1", "0", "0">>)))) @@ (<<"k">> :> PyStr(<<"1", "0", "0">>))),
   PyDict((<<"a">> :> EmptyDict)),
   PyDict((<<"r", "e", "s", "o", "l", "u", "t", "i", "o", "n">> :> PyDict((<<"d", "x">> :> None))) @@ (<<"b", "o", "u", "n", "d", "i", "n", "g", "_", "b", "o", "x">> :> PyInt(1)))}


Join3(l, o, r) == l \o <<" ">> \o o \o <<" ">> \o r

Expressions ==
  {Join3(l, OpEq, r) : l \in LhsTokens, r \in RhsTokens}
  \cup {Join3(l, o, r) : l \in OperatorLhsTokens, o \in OperatorTokens, r \in OperatorRhsTokens}
  \cup MalformedExpressions

PayloadWith(v) == PyDict((<<"a">> :> PyDict(<<"b">> :> v)) @@ (<<"k">> :> v))

ExpressionPayloads == {PayloadWith(v) : v \in PayloadValues} \cup SpecialPayloads

Absent == [t |-> "absent"]

\* a rule mapping with the given "if" and "type_check_mode" entries (Absent: no entry)
MakeRule(c, m) ==
  [k \in ({"if" : x \in {c} \ {Absent}} \cup {"type_check_mode" : x \in {m} \ {Absent}})
     |-> IF k = "if" THEN c ELSE m]

EvaluatedRules == {MakeRule(c, m) : c \in IfValues \cup {Absent}, m \in ModeValues \cup {Absent}}

RuleLists == UNION {[1..n -> RulePool] : n \in 0..MaxRules}

(* what the paths given to load_rule_profile and enforce_profile name *)
Files ==
  {MissingFile,
   UnparseableFile,
   ParsedFile(None),
   ParsedFile(PyList(<<>>)),
   ParsedFile(PyInt(5)),
   ParsedFile(EmptyDict),
   ParsedFile(PyDict((<<"r", "u", "l", "e", "s">> :> PyList(<<>>)))),
   ParsedFile(PyDict((<<"r", "u", "l", "e", "s">> :> PyInt(5)))),
   ParsedFile(PyDict((<<"r", "u", "l", "e", "s">> :> None))),
   ParsedFile(PyDict((<<"r", "u", "l", "e", "s">> :> PyStr(<<"a", "b">>)))),
   ParsedFile(PyDict((<<"r", "u", "l", "e", "s">> :> PyDict((<<"a">> :> PyInt(1)))))),
   ParsedFile(PyDict((<<"r", "u", "l", "e", "s">> :> PyList(<<PyInt(5)>>)))),
   ParsedFile(PyDict((<<"r", "u", "l", "e", "s">> :> PyList(<<PyDict((<<"i", "f">> :> PyStr(<<"a", ".", "b", " ", "=", "=", " ", "1", "0", "0">>)) @@ (<<"r", "a", "i", "s", "e">> :> PyStr(<<"m", "1">>)))>>)))),
   ParsedFile(PyDict((<<"r", "u", "l", "e", "s">> :> PyList(<<PyDict((<<"i", "f">> :> PyStr(<<"a", ".", "b", " ", "=", "=", " ", "1", "0", "0">>)) @@ (<<"r", "a", "i", "s", "e">> :> PyStr(<<"m", "1">>))), PyInt(5)>>)))),
   ParsedFile(PyDict((<<"r", "u", "l", "e", "s">> :> PyList(<<PyDict((<<"i", "f">> :> PyInt(5)) @@ (<<"r", "a", "i", "s", "e">> :> PyStr(<<"m", "5">>))), PyDict((<<"i", "f">> :> PyStr(<<"k", " ", "=", "=", " ", "1", "0", "0">>)) @@ (<<"s", "t", "r", "i", "c", "t", "_", "t", "y", "p", "e", "_", "c", "h", "e", "c", "k">> :> PyStr(<<"y", "e", "s">>)) @@ (<<"t", "y", "p", "e", "_", "c", "h", "e", "c", "k", "_", "m", "o", "d", "e">> :> PyStr(<<"r", "e", "l", "a", "x", "e", "d">>)))>>)))),
   ParsedFile(PyDict((<<"r", "u", "l", "e", "s">> :> PyList(<<PyDict((<<"i", "f">> :> PyStr(<<"k", " ", "=", "=", " ", "1", "0", "0">>)) @@ (<<"s", "t", "r", "i", "c", "t", "_", "t", "y", "p", "e", "_", "c", "h", "e", "c", "k">> :> PyStr(<<"y", "e", "s">>)) @@ (<<"t", "y", "p", "e", "_", "c", "h", "e", "c", "k", "_", "m", "o", "d", "e">> :> PyStr(<<"r", "e", "l", "a", "x", "e", "d">>))), None>>)))),
   ParsedFile(PyDict((<<"r", "u", "l", "e", "s">> :> PyList(<<PyDict((<<"r", "a", "i", "s", "e">> :> PyStr(<<"m", "0">>))), PyDict((<<"i", "f">> :> PyStr(<<"a", ".", "b", " ", "=", "=", " ", "1", "0", "0">>)) @@ (<<"r", "a", "i", "s", "e">> :> PyStr(<<"m", "1">>)) @@ (<<"s", "t", "r", "i", "c", "t", "_", "t", "y", "p", "e", "_", "c", "h", "e", "c", "k">> :> PyInt(0))), PyDict((<<"i", "f">> :> PyStr(<<>>)))>>))))}

(* operator tokens given to normalize_operator and resolve_operator *)
OperatorInputs ==
  SUPPORTED_OPERATORS
  \cup {m.from : m \in alt_map}
  \cup {m.to : m \in alt_map}
  \cup {<<" ", ">", "=", "=", " ">>, <<" ", "i", "n", " ">>, <<" ", "+", "+">>,
        <<"u", "n", "k", "n", "o", "w", "n">>, <<"~", "~", "~">>, <<"=">>, <<>>}

(* payloads and paths given to get_nested_value *)
NestedPayloads ==
  {EmptyDict,
   PyDict((<<"a">> :> None)),
   PyDict((<<"a">> :> PyDict((<<"b">> :> None)))),
   PyDict((<<"a">> :> PyDict((<<"a">> :> None)))),
   PyDict((<<"a">> :> PyDict((<<"b">> :> PyDict((<<"c">> :> PyInt(1))))))),
   PyDict((<<"a">> :> PyInt(5))),
   PyDict((<<"a">> :> PyDict((<<"b">> :> PyInt(1)))) @@ (<<"k">> :> None))}

NestedPaths ==
  {<<"a">>,
   <<"a", ".", "a">>,
   <<"a", ".", "b">>,
   <<"a", ".", "b", ".", "c">>,
   <<"a", ".", "a", ".", "a">>,
   <<"a", ".", "b", ".", "a">>,
   <<"k">>,
   <<"k", ".", "a">>,
   <<"b", ".", "a">>,
   <<>>,
   <<"a", ".">>}

-----------------------------------------------------------------------------
(* The calls *)

Pending == Raise("none", "pending", <<>>)

Init ==
  /\ profile_check_enabled \in BOOLEAN
  /\ pc = "idle"
  /\ fn = "none"
  /\ args = <<>>
  /\ result = Pending
  /\ rules = <<>>
  /\ idx = 0
  /\ evaluated = <<>>
  /\ walk_keys = <<>>
  /\ walk_value = None

Finish(f, a, r) ==
  /\ pc' = "done"
  /\ fn' = f
  /\ args' = a
  /\ result' = r
  /\ UNCHANGED <<profile_check_enabled, rules, idx, evaluated, walk_keys, walk_value>>

CallParseLiteral ==
  /\ pc = "idle"
  /\ \E v \in LiteralInputs : Finish("parse_literal", [value |-> v], parse_literal(v))

CallRelaxedEquals ==
  /\ pc = "idle"
  /\ \E l \in Operands, r \in Operands :
       Finish("relaxed_equals", [lhs |-> l, rhs |-> r], BoolRet(relaxed_equals(l, r)))

CallEvaluateExpression ==
  /\ pc = "idle"
  /\ \E e \in Expressions, p \in ExpressionPayloads, s \in BOOLEAN, r \in BOOLEAN :
       Finish("_evaluate_expression",
              [expression |-> e, payload |-> p, strict |-> s, relaxed |-> r],
              _evaluate_expression(e, p, s, r))

\* evaluate_rule(rule, payload, strict_type_check, relaxed_type_check) is called
CallEvaluateRule ==
  /\ pc = "idle"
  /\ \E rule \in EvaluatedRules, p \in RulePayloads, s \in BOOLEAN, r \in BOOLEAN :
       args' = [rule |-> rule, payload |-> p, strict |-> s, relaxed |-> r]
  /\ fn' = "evaluate_rule"
  /\ pc' = "rule"
  /\ UNCHANGED <<profile_check_enabled, result, rules, idx, evaluated, walk_keys, walk_value>>

\* rule_engine.py lines 140-163: the call returns or raises
ReturnEvaluateRule ==
  /\ pc = "rule"
  /\ result' = evaluate_rule(args.rule, args.payload, args.strict, args.relaxed)
  /\ pc' = "done"
  /\ UNCHANGED <<profile_check_enabled, fn, args, rules, idx, evaluated, walk_keys, walk_value>>

\* get_nested_value(payload, path), lines 17-18
NestedStart ==
  /\ pc = "idle"
  /\ \E p \in NestedPayloads, path \in NestedPaths :
       /\ args' = [payload |-> p, path |-> path]
       /\ walk_keys' = Split(path, ".")
       /\ walk_value' = p
  /\ fn' = "get_nested_value"
  /\ pc' = "walk"
  /\ idx' = 0
  /\ UNCHANGED <<profile_check_enabled, result, rules, evaluated>>

\* the key k of the running iteration
CurrentKey == walk_keys[idx + 1]

\* lines 20-23: the value reached is not a mapping
NestedExpectedDict ==
  /\ pc = "walk" /\ idx < Len(walk_keys)
  /\ walk_value.t # "dict"
  /\ result' = REE("expected_dict", args.path)
  /\ pc' = "done"
  /\ UNCHANGED <<profile_check_enabled, fn, args, rules, idx, evaluated, walk_keys, walk_value>>

\* lines 24-25: the key is not in the mapping
NestedMissingKey ==
  /\ pc = "walk" /\ idx < Len(walk_keys)
  /\ walk_value.t = "dict"
  /\ CurrentKey \notin DOMAIN walk_value.d
  /\ result' = REE("missing_key", args.path)
  /\ pc' = "done"
  /\ UNCHANGED <<profile_check_enabled, fn, args, rules, idx, evaluated, walk_keys, walk_value>>

\* lines 26-30: the value under the key is None and k != keys[-1]
NestedNull ==
  /\ pc = "walk" /\ idx < Len(walk_keys)
  /\ walk_value.t = "dict"
  /\ CurrentKey \in DOMAIN walk_value.d
  /\ walk_value.d[CurrentKey].t = "none"
  /\ CurrentKey # walk_keys[Len(walk_keys)]
  /\ walk_value' = walk_value.d[CurrentKey]
  /\ result' = REE("null_value", args.path)
  /\ pc' = "done"
  /\ UNCHANGED <<profile_check_enabled, fn, args, rules, idx, evaluated, walk_keys>>

\* lines 26-31: the value under the key becomes the value reached
NestedAdvance ==
  /\ pc = "walk" /\ idx < Len(walk_keys)
  /\ walk_value.t = "dict"
  /\ CurrentKey \in DOMAIN walk_value.d
  /\ ~(walk_value.d[CurrentKey].t = "none" /\ CurrentKey # walk_keys[Len(walk_keys)])
  /\ walk_value' = walk_value.d[CurrentKey]
  /\ idx' = idx + 1
  /\ UNCHANGED <<profile_check_enabled, pc, fn, args, result, rules, evaluated, walk_keys>>

\* line 32
NestedReturn ==
  /\ pc = "walk" /\ idx = Len(walk_keys)
  /\ result' = Ret(walk_value)
  /\ pc' = "done"
  /\ UNCHANGED <<profile_check_enabled, fn, args, rules, idx, evaluated, walk_keys, walk_value>>

CallNormalizeOperator ==
  /\ pc = "idle"
  /\ \E op \in OperatorInputs :
       Finish("normalize_operator", [op |-> op], NormalizeOperatorCall(op))

CallResolveOperator ==
  /\ pc = "idle"
  /\ \E op \in OperatorInputs :
       Finish("resolve_operator", [op |-> op], ResolveOperatorCall(op))

\* enforce_profile(profile_source, payload) up to the loop, lines 48-73
EnforceStart ==
  /\ pc = "idle"
  /\ \E source \in RuleLists, p \in ProfilePayloads :
       /\ fn' = "enforce_profile"
       /\ args' = [profile_source |-> source, payload |-> p, source_type |-> "list"]
       /\ rules' = EffectiveRules(source, profile_check_enabled)
  /\ pc' = "loop"
  /\ idx' = 0
  /\ UNCHANGED <<profile_check_enabled, result, evaluated, walk_keys, walk_value>>

\* enforce_profile(path, payload), the path naming `file`, when the loop is reached
EnforceStartFromPath ==
  /\ pc = "idle"
  /\ \E file \in Files, p \in ProfilePayloads :
       \E loaded \in {PathRules(file, profile_check_enabled)} :
         /\ loaded.ok
         /\ fn' = "enforce_profile"
         /\ args' = [profile_source |-> file, payload |-> p, source_type |-> "str"]
         /\ rules' = loaded.val
  /\ pc' = "loop"
  /\ idx' = 0
  /\ UNCHANGED <<profile_check_enabled, result, evaluated, walk_keys, walk_value>>

\* enforce_profile(path, payload) ending before the first iteration:
\* the RuntimeError of line 55, or the TypeError of iterating the loaded value
EnforceStartFails ==
  /\ pc = "idle"
  /\ \E file \in Files, p \in ProfilePayloads :
       \E loaded \in {PathRules(file, profile_check_enabled)} :
         /\ ~loaded.ok
         /\ fn' = "enforce_profile"
         /\ args' = [profile_source |-> file, payload |-> p, source_type |-> "str"]
         /\ result' = loaded
  /\ pc' = "done"
  /\ UNCHANGED <<profile_check_enabled, rules, idx, evaluated, walk_keys, walk_value>>

\* load_rule_profile(path), the path naming `file`
CallLoadRuleProfile ==
  /\ pc = "idle"
  /\ \E file \in Files :
       Finish("load_rule_profile", [path |-> file], load_rule_profile(file))

\* an item that is not a mapping: rule.get of line 76 raises
EnforceBadRecord ==
  /\ pc = "loop" /\ idx < Len(rules)
  /\ RuleStep(rules[idx + 1], idx, args.payload).act = "fail"
  /\ result' = RuleStep(rules[idx + 1], idx, args.payload).exc
  /\ pc' = "done"
  /\ UNCHANGED <<profile_check_enabled, fn, args, rules, idx, evaluated, walk_keys, walk_value>>

\* a rule without a condition: `continue`
EnforceSkip ==
  /\ pc = "loop" /\ idx < Len(rules)
  /\ RuleStep(rules[idx + 1], idx, args.payload).act = "skip"
  /\ idx' = idx + 1
  /\ UNCHANGED <<profile_check_enabled, pc, fn, args, result, rules, evaluated, walk_keys, walk_value>>

\* EnforcePass taking the rule it has evaluated off the caller's list
EnforcePassConsumingRule ==
  /\ pc = "loop" /\ idx < Len(rules)
  /\ RuleStep(rules[idx + 1], idx, args.payload).act = "pass"
  /\ idx' = idx + 1
  /\ evaluated' = Append(evaluated, idx)
  /\ args' = [args EXCEPT !.profile_source = IF @ = <<>> THEN @ ELSE Tail(@)]
  /\ UNCHANGED <<profile_check_enabled, pc, fn, result, rules, walk_keys, walk_value>>

\* a rule that is evaluated and does not trigger
EnforcePass ==
  /\ pc = "loop" /\ idx < Len(rules)
  /\ RuleStep(rules[idx + 1], idx, args.payload).act = "pass"
  /\ idx' = idx + 1
  /\ evaluated' = Append(evaluated, idx)
  /\ UNCHANGED <<profile_check_enabled, pc, fn, args, result, rules, walk_keys, walk_value>>

\* a rule whose evaluation raises, or that triggers: the call ends with the exception
EnforceRaise ==
  /\ pc = "loop" /\ idx < Len(rules)
  /\ RuleStep(rules[idx + 1], idx, args.payload).act = "raise"
  /\ result' = RuleStep(rules[idx + 1], idx, args.payload).exc
  /\ evaluated' = Append(evaluated, idx)
  /\ pc' = "done"
  /\ UNCHANGED <<profile_check_enabled, fn, args, rules, idx, walk_keys, walk_value>>

\* the loop is exhausted: the call returns None
EnforceReturn ==
  /\ pc = "loop" /\ idx = Len(rules)
  /\ result' = Ret(None)
  /\ pc' = "done"
  /\ UNCHANGED <<profile_check_enabled, fn, args, rules, idx, evaluated, walk_keys, walk_value>>

Next ==
  \/ CallParseLiteral
  \/ CallRelaxedEquals
  \/ CallEvaluateExpression
  \/ CallEvaluateRule
  \/ ReturnEvaluateRule
  \/ NestedStart
  \/ NestedExpectedDict
  \/ NestedMissingKey
  \/ NestedNull
  \/ NestedAdvance
  \/ NestedReturn
  \/ CallNormalizeOperator
  \/ CallResolveOperator
  \/ CallLoadRuleProfile
  \/ EnforceStart
  \/ EnforceStartFromPath
  \/ EnforceStartFails
  \/ EnforceBadRecord
  \/ EnforceSkip
  \/ EnforcePass
  \/ EnforceRaise
  \/ EnforceReturn

Spec == Init /\ [][Next]_vars

-----------------------------------------------------------------------------
(* Properties of enforce_profile *)

\* enforce_profile called with a rule list / with a path
EnforceCall == fn = "enforce_profile" /\ args.source_type = "list"
EnforcePathCall == fn = "enforce_profile" /\ args.source_type = "str"
LoadCall == fn = "load_rule_profile"
EnforceDone == EnforceCall /\ pc = "done"

\* the outcome of evaluate_rule(rule, payload) as the loop calls it
Evaluation(i) == evaluate_rule(rules[i + 1], args.payload, FALSE, FALSE)

\* rule i (0-based) reaches evaluate_rule: its condition is truthy
IsEvaluable(i) == Truthy(RuleGet(rules[i + 1], "if"))

TriggeringRules ==
  {i \in 0..(Len(rules) - 1) :
     IsEvaluable(i) /\ Evaluation(i).ok /\ Truthy(Evaluation(i).val)}

FailingRules == {i \in 0..(Len(rules) - 1) : IsEvaluable(i) /\ ~Evaluation(i).ok}

StoppingRules == TriggeringRules \cup FailingRules

FirstOf(S) == CHOOSE i \in S : \A j \in S : i <= j

\* "[Rule i] <the rule's raise message>"
TriggerMessage(i) ==
  <<"[", "R", "u", "l", "e", " ">> \o NatToStr(i) \o <<"]", " ">>
    \o StrOf(RuleMessage(rules[i + 1], i))

C2_MalformedConditionNeverTriggers ==
  EnforceCall =>
    \A j \in 1..Len(evaluated) :
      LET condition == RuleGet(rules[evaluated[j] + 1], "if")
      IN condition.t = "str" /\ condition.s # <<>>

\* C6: when the evaluation of rule i fails inside enforce_profile, the call ends
\* with one ValidationProfileError carrying the index, the raise message, the
\* condition and the cause, rule i is the last rule evaluated, and no exception of
\* another type leaves the call.
C6_EvaluationFailureIsWrapped ==
  EnforceDone =>
    /\ ~result.ok => result.exc = "ValidationProfileError"
    /\ (StoppingRules # {} /\ FirstOf(StoppingRules) \in FailingRules) =>
         LET i == FirstOf(StoppingRules)
         IN /\ result.exc = "ValidationProfileError"
            /\ result.kind = "evaluation_error"
            /\ result.detail.text = TriggerMessage(i) \o SeqEvaluationErrorFor
            /\ result.detail.condition = RuleGet(rules[i + 1], "if")
            /\ result.detail.cause = Evaluation(i)
            /\ evaluated[Len(evaluated)] = i

\* C15: the outcome of enforce_profile depends on its source and payload only: no
\* module-level or environment-derived setting changes which rules are evaluated,
\* and for an empty rule list the call returns without raising
C15_OutcomeDependsOnInputsOnly ==
  /\ (EnforceCall /\ pc \in {"loop", "done"}) => rules = args.profile_source
  /\ (EnforceDone /\ args.profile_source = <<>>) => result = Ret(None)

-----------------------------------------------------------------------------
(* Properties of _evaluate_expression and evaluate_rule *)

ExpressionDone == pc = "done" /\ fn = "_evaluate_expression"
RuleDone == pc = "done" /\ fn = "evaluate_rule"

\* the condition of the rule evaluate_rule was called with
CalledCondition == RuleGet(args.rule, "if")

HasExpression ==
  \/ ExpressionDone
  \/ RuleDone /\ CalledCondition.t = "str" /\ CalledCondition.s # <<>>

\* the expression string that reaches _evaluate_expression
CalledExpression ==
  IF fn = "_evaluate_expression" THEN args.expression ELSE CalledCondition.s

Tokens == SplitMax(Strip(CalledExpression), " ", 3)
LhsToken == Tokens[1]
OperatorToken == Tokens[2]
RhsToken == Tokens[3]

\* three tokens and a supported operator, evaluated against the payload
\* (not on the literal-only path of an empty payload)
ResolvesOperands ==
  /\ HasExpression
  /\ Len(Tokens) = 3
  /\ OperatorToken \in SUPPORTED_OPERATORS
  /\ ~(~Truthy(args.payload) /\ is_literal(LhsToken) /\ is_literal(RhsToken))

LhsLookup == get_nested_value(args.payload, LhsToken)
RhsParse == parse_literal(PyStr(RhsToken))

\* the lhs path resolves in the payload and the rhs token parses as a literal
OperandsResolved == ResolvesOperands /\ LhsLookup.ok /\ RhsParse.ok

ModeEntry == RuleGet(args.rule, "type_check_mode")

\* strict mode: the explicit strict flag, or neither flag and no valid relaxed
\* type_check_mode on the rule
StrictMode ==
  \/ HasExpression /\ args.strict /\ ~args.relaxed
  \/ /\ RuleDone /\ ~args.strict /\ ~args.relaxed
     /\ ModeEntry # PyStr(<<"r", "e", "l", "a", "x", "e", "d">>)

RelaxedMode == ExpressionDone /\ args.relaxed /\ ~args.strict

RaisedRuleEvaluationError(kind) ==
  ~result.ok /\ result.exc = "RuleEvaluationError" /\ result.kind = kind

RequestedOperator == resolve_operator(OperatorToken).op

\* C3: in strict mode, when the resolved lhs and rhs values have different
\* runtime types the evaluation raises RuleEvaluationError reporting incompatible
\* types, and when the types are identical the outcome is the requested operator's
\* function applied to the two values (a RuleEvaluationError when that function
\* itself raises).
C3_StrictRequiresIdenticalTypes ==
  (StrictMode /\ OperandsResolved) =>
    LET applied == ApplyOperator(RequestedOperator, LhsLookup.val, RhsParse.val)
    IN IF LhsLookup.val.t # RhsParse.val.t
       THEN RaisedRuleEvaluationError("incompatible_types")
       ELSE IF applied.ok THEN result = Ret(PyBool(applied.b))
       ELSE RaisedRuleEvaluationError("comparison_failed")

\* the default strict mode of evaluate_rule meets the payload string "100" and the literal 100
C3_Witness ==
  /\ RuleDone /\ ~args.strict /\ ~args.relaxed
  /\ StrictMode /\ OperandsResolved
  /\ LhsLookup.val = PyStr(<<"1", "0", "0">>)
  /\ RhsParse.val = PyInt(100)
  /\ RaisedRuleEvaluationError("incompatible_types")

\* C4: in relaxed mode, for a non-empty payload and a three-token expression with
\* a supported operator whose lhs path resolves and whose rhs token parses, none
\* of the tokens or values being a symbolic reference, _evaluate_expression
\* returns a boolean and does not raise.
C4_RelaxedNeverRaises ==
  (/\ RelaxedMode /\ OperandsResolved
   /\ ~is_symbolic_reference(LhsToken) /\ ~is_symbolic_reference(RhsToken)
   /\ ~IsSymbolicValue(LhsLookup.val) /\ ~IsSymbolicValue(RhsParse.val))
    => (result.ok /\ result.val.t = "bool")

\* the string form of a literal's value: the decimal string of an integer, the
\* string of a float, "true"/"false" of a boolean
StringForm(v) ==
  CASE v.t = "bool" -> PyStr(IF v.b THEN <<"t", "r", "u", "e">> ELSE <<"f", "a", "l", "s", "e">>)
    [] OTHER -> PyStr(StrOf(v))

\* C5: in relaxed mode an equality `path == literal` is True when the payload
\* value at the path is the string form of the literal's value, and when it is
\* that native value.
C5_RelaxedEqualityAcceptsStringForm ==
  (/\ RelaxedMode /\ OperandsResolved
   /\ OperatorToken = <<"=", "=">>
   /\ RhsParse.val.t \in {"bool", "int", "float"}
   /\ LhsLookup.val \in {RhsParse.val, StringForm(RhsParse.val)})
    => result = Ret(PyBool(TRUE))

\* C7: evaluate_rule returns True, without raising, for every rule whose "if" is
\* missing, empty or not a string, for every payload and every combination of the
\* flags.
C7_MalformedRuleYieldsTrue ==
  (RuleDone /\ (CalledCondition.t # "str" \/ CalledCondition.s = <<>>))
    => result = Ret(PyBool(TRUE))

\* a rule whose "if" is the integer 5, evaluated against a non-empty payload with the relaxed flag
C7_Witness ==
  /\ RuleDone
  /\ CalledCondition = PyInt(5)
  /\ Truthy(args.payload)
  /\ args.relaxed
  /\ result = Ret(PyBool(TRUE))

\* the number of whitespace-separated tokens of a string
TokenCount(s) ==
  LET pieces == Split(s, " ")
  IN Cardinality({i \in 1..Len(pieces) : pieces[i] # <<>>})

\* C13: an expression is accepted exactly when it consists of three
\* whitespace-separated tokens, however much whitespace separates them; any other
\* token count fails with the error "Unsupported expression format"
C13_ThreeTokensAccepted ==
  ExpressionDone =>
    (TokenCount(args.expression) = 3 <=> ~RaisedRuleEvaluationError("unsupported_format"))

-----------------------------------------------------------------------------
(* Properties of parse_literal and relaxed_equals *)

ParseDone == pc = "done" /\ fn = "parse_literal"

\* the input string with surrounding whitespace removed
Trimmed == Strip(args.value.s)

IsQuoted(s) ==
  \/ StartsWith(s, "'") /\ EndsWith(s, "'")
  \/ StartsWith(s, "\"") /\ EndsWith(s, "\"")

\* a string that is no keyword, quoted string, digit string or Python literal
Unparseable ==
  /\ args.value.t = "str"
  /\ Lower(Trimmed) \notin Keywords
  /\ ~IsQuoted(Trimmed)
  /\ ~IsDigitStr(Trimmed)
  /\ ~literal_eval(Trimmed).ok

\* C8: parse_literal never raises: it returns a value for every input, a
\* non-string input is returned unchanged, and an unparseable string is returned
\* as the trimmed original string.
C8_ParseLiteralNeverRaises ==
  ParseDone =>
    /\ result.ok
    /\ args.value.t # "str" => result = Ret(args.value)
    /\ Unparseable => result = Ret(PyStr(Trimmed))

\* the characters between the first and the last character of s
Inner(s) == SubSeq(s, 2, Len(s) - 1)

\* parse_literal was given a token fully wrapped in matching quotes
WrappedInQuotes ==
  ParseDone /\ args.value.t = "str" /\ Len(Trimmed) >= 2 /\ IsQuoted(Trimmed)

\* two equal quote characters side by side
HasDoubledQuote(s) == \E i \in 1..(Len(s) - 1) : s[i] = s[i + 1] /\ s[i] \in {"'", "\""}

\* C25 as stated: a token fully wrapped in matching quotes gives the string of
\* the characters between the outer quotes, verbatim, doubled quote characters
\* included, and never a number, boolean or null
C25_QuotedReturnedVerbatim ==
  WrappedInQuotes => result = Ret(PyStr(Inner(Trimmed)))

\* C25 amended: such a token always gives a string, the characters between the
\* outer quotes once normalize_quotes has collapsed every run of three, then of
\* two, equal quote characters into one; without doubled quote characters that is
\* the content verbatim
C25_QuotedReturnedAsNormalizedString ==
  WrappedInQuotes =>
    /\ result.ok /\ result.val.t = "str"
    /\ result = Ret(PyStr(Inner(normalize_quotes(Trimmed))))
    /\ ~HasDoubledQuote(Trimmed) => result = Ret(PyStr(Inner(Trimmed)))

\* parse_literal("'12'") returned the string "12"
C25_Witness ==
  /\ WrappedInQuotes /\ Trimmed = <<"'", "1", "2", "'">>
  /\ result = Ret(PyStr(<<"1", "2">>))

EqualsDone == pc = "done" /\ fn = "relaxed_equals"

\* a string equal to "nan" or "not_a_number", ignoring case and surrounding whitespace
IsNanString(v) ==
  /\ v.t = "str"
  /\ Lower(Strip(v.s)) \in {<<"n", "a", "n">>,
                            <<"n", "o", "t", "_", "a", "_", "n", "u", "m", "b", "e", "r">>}

\* C9: relaxed_equals returns False whenever either operand is a string equal,
\* case-insensitively and ignoring surrounding whitespace, to "nan" or
\* "not_a_number", whatever the other operand is.
C9_NanNeverEquals ==
  (EqualsDone /\ (IsNanString(args.lhs) \/ IsNanString(args.rhs)))
    => result = Ret(PyBool(FALSE))

\* " NaN " against a string it would otherwise equal by truthiness
C9_Witness ==
  /\ EqualsDone
  /\ args.lhs = PyStr(<<" ", "N", "a", "N", " ">>)
  /\ args.rhs = PyStr(<<"a", "b", "c">>)
  /\ result = Ret(PyBool(FALSE))

\* both casts to T succeed and are equal
CommonCast(T) ==
  LET l == relaxed_cast(args.lhs, T)
      r == relaxed_cast(args.rhs, T)
  IN l # None /\ r # None /\ PyEq(l, r)

OperandsAre(l, r) == args.lhs = l /\ args.rhs = r

\* C10: for operands that are not nan-strings, relaxed_equals is True exactly when
\* some type among bool, int, float, str casts both operands to non-None equal
\* values; ("true", True), ("42", 42), ("3.14", 3.14) and ("abc", "abc") give True
\* and ("123", False) gives False.
C10_EqualsIffCommonCast ==
  (EqualsDone /\ ~IsNanString(args.lhs) /\ ~IsNanString(args.rhs)) =>
    /\ result = Ret(PyBool(\E T \in {"bool", "int", "float", "str"} : CommonCast(T)))
    /\ OperandsAre(PyStr(<<"t", "r", "u", "e">>), PyBool(TRUE)) => result = Ret(PyBool(TRUE))
    /\ OperandsAre(PyStr(<<"4", "2">>), PyInt(42)) => result = Ret(PyBool(TRUE))
    /\ OperandsAre(PyStr(<<"3", ".", "1", "4">>), PyFloat(3140)) => result = Ret(PyBool(TRUE))
    /\ OperandsAre(PyStr(<<"a", "b", "c">>), PyStr(<<"a", "b", "c">>)) => result = Ret(PyBool(TRUE))
    /\ OperandsAre(PyStr(<<"1", "2", "3">>), PyBool(FALSE)) => result = Ret(PyBool(FALSE))

\* "0.0" and 0 differ as bool and have no common int cast: they match as float
C10_Witness ==
  /\ EqualsDone
  /\ OperandsAre(PyStr(<<"0", ".", "0">>), PyInt(0))
  /\ ~CommonCast("bool") /\ ~CommonCast("int") /\ CommonCast("float")
  /\ result = Ret(PyBool(TRUE))

\* a non-empty string that is none of the boolean words true, 1, false, 0
IsOtherString(v) ==
  /\ v.t = "str" /\ v.s # <<>>
  /\ Lower(Strip(v.s)) \notin {<<"t", "r", "u", "e">>, <<"1">>, <<"f", "a", "l", "s", "e">>, <<"0">>}

IsNonzeroNumber(v) == v.t \in {"int", "float"} /\ Truthy(v)

\* C27: relaxed_equals collapses to truthiness: operands that are not
\* nan-strings and whose bool casts coincide are equal; so two non-empty strings
\* other than the boolean words are equal even when they differ, such a string
\* equals any nonzero number, and None equals 0, "" and False
C27_CollapsesToTruthiness ==
  (EqualsDone /\ ~IsNanString(args.lhs) /\ ~IsNanString(args.rhs)) =>
    /\ relaxed_cast(args.lhs, "bool") = relaxed_cast(args.rhs, "bool") => result = Ret(PyBool(TRUE))
    /\ (IsOtherString(args.lhs) /\ IsOtherString(args.rhs)) => result = Ret(PyBool(TRUE))
    /\ (IsOtherString(args.lhs) /\ IsNonzeroNumber(args.rhs)) => result = Ret(PyBool(TRUE))
    /\ (args.lhs = None /\ args.rhs \in {PyInt(0), PyStr(<<>>), PyBool(FALSE)}) => result = Ret(PyBool(TRUE))

\* relaxed_equals("abc", "xyz") returned True
C27_Witness ==
  /\ EqualsDone
  /\ OperandsAre(PyStr(<<"a", "b", "c">>), PyStr(<<"x", "y", "z">>))
  /\ result = Ret(PyBool(TRUE))

\* the call with its operands exchanged
Exchanged == relaxed_equals(args.rhs, args.lhs)

\* C30: relaxed_equals is symmetric and never raises: for all operands a and b
\* (null, booleans, integers, strings) relaxed_equals(a, b) returns a boolean, the
\* one relaxed_equals(b, a) returns
C30_Symmetric ==
  EqualsDone =>
    /\ result.ok
    /\ result.val.t = "bool"
    /\ result.val.b = Exchanged

\* relaxed_equals("abc", " NaN ") has returned False, the rejected operand on the
\* right, and relaxed_equals("1", True) has returned True
C30_WitnessRejectedRight ==
  /\ EqualsDone
  /\ OperandsAre(PyStr(<<"a", "b", "c">>), PyStr(<<" ", "N", "a", "N", " ">>))
  /\ result = Ret(PyBool(FALSE))

-----------------------------------------------------------------------------
(* Properties of the operator validation of _evaluate_expression *)

\* the call ended with one of the two operator errors of lines 51-54 and 76-80
RejectedForOperator ==
  \/ RaisedRuleEvaluationError("unsupported_operator")
  \/ RaisedRuleEvaluationError("operator_resolution_failed")

\* C17: an expression of three tokens is rejected for its operator exactly when
\* resolve_operator rejects the operator token; a token resolve_operator accepts
\* (a canonical operator or an alias of one) is evaluated as its canonical operator
C17_RejectedIffUnresolvable ==
  (ExpressionDone /\ Len(Tokens) = 3) =>
    LET resolved == resolve_operator(OperatorToken) IN
      /\ RejectedForOperator <=> ~resolved.ok
      /\ resolved.ok =>
           result = _evaluate_expression(Join3(LhsToken, resolved.op, RhsToken),
                                         args.payload, args.strict, args.relaxed)

-----------------------------------------------------------------------------
(* Properties of the final comparison of _evaluate_expression *)

\* the operators an expression of three tokens can name
ReplaceableOperators == SUPPORTED_OPERATORS \ {OpNotIn}

ThreeTokensSupported == ExpressionDone /\ Len(Tokens) = 3 /\ OperatorToken \in ReplaceableOperators

\* the call took the literal-only path of lines 56-64
OnFastPath ==
  ThreeTokensSupported /\ ~Truthy(args.payload) /\ is_literal(LhsToken) /\ is_literal(RhsToken)

\* the call with its operator replaced by o
WithOperator(o) ==
  _evaluate_expression(Join3(LhsToken, o, RhsToken), args.payload, args.strict, args.relaxed)

\* a non-relaxed call that reaches the final comparison: both operands resolved, of one type
ComparesResolved ==
  /\ ThreeTokensSupported /\ ~args.relaxed /\ ~OnFastPath
  /\ LhsLookup.ok /\ RhsParse.ok /\ LhsLookup.val.t = RhsParse.val.t

\* the comparison function of the operator applied to the resolved operands
Compared ==
  LET cmp == ApplyOperator(OperatorToken, LhsLookup.val, RhsParse.val)
  IN IF cmp.ok THEN Ret(PyBool(cmp.b)) ELSE REE("comparison_failed", OperatorToken)

\* C18 as stated: with the relaxed flag, for any payload and tokens, replacing the
\* operator by another supported one leaves the result unchanged; without it the
\* result is the operator's comparison function applied to the operands
C18_RelaxedIgnoresOperator ==
  /\ (ThreeTokensSupported /\ args.relaxed) =>
       \A o \in ReplaceableOperators : WithOperator(o) = result
  /\ ComparesResolved => result = Compared

\* C18 amended: the same, except on the literal-only path of an empty payload,
\* where the operator's comparison function is applied in every mode
C18_RelaxedIgnoresOperatorOffFastPath ==
  /\ (ThreeTokensSupported /\ args.relaxed /\ ~OnFastPath) =>
       \A o \in ReplaceableOperators : WithOperator(o) = result
  /\ ComparesResolved => result = Compared
  /\ (OnFastPath /\ parse_literal(PyStr(LhsToken)).ok /\ RhsParse.ok) =>
       LET cmp == ApplyOperator(OperatorToken, parse_literal(PyStr(LhsToken)).val, RhsParse.val)
       IN IF cmp.ok THEN result = Ret(PyBool(cmp.b))
          ELSE RaisedRuleEvaluationError("literal_comparison_failed")

\* a relaxed call off the literal-only path whose operator is != and whose
\* operands are equal, answering True
C18_Witness ==
  /\ ThreeTokensSupported /\ args.relaxed /\ ~OnFastPath
  /\ OperatorToken = OpNe /\ LhsLookup.ok /\ RhsParse.ok /\ LhsLookup.val = RhsParse.val
  /\ result = Ret(PyBool(TRUE))

-----------------------------------------------------------------------------
(* Properties of the rhs operand of _evaluate_expression *)

RhsLookup == get_nested_value(args.payload, RhsToken)

\* a relaxed call off the literal-only path whose lhs resolves and whose rhs
\* token is a dotted path that resolves in the payload
RhsIsResolvingPath ==
  /\ ThreeTokensSupported /\ args.relaxed /\ ~OnFastPath
  /\ Contains(RhsToken, ".") /\ RhsLookup.ok /\ LhsLookup.ok

\* C19: in relaxed mode a dotted rhs path that resolves in the payload stands for
\* the value found there: the result is the relaxed comparison of the lhs payload
\* value with the rhs payload value, False for the values "10" and "20"
C19_RhsPathResolvesFromPayload ==
  RhsIsResolvingPath =>
    /\ result = Ret(PyBool(relaxed_equals(LhsLookup.val, RhsLookup.val)))
    /\ (LhsLookup.val = PyStr(<<"2", "0">>) /\ RhsLookup.val = PyStr(<<"1", "0">>))
         => result = Ret(PyBool(FALSE))

-----------------------------------------------------------------------------
(* Properties of the lhs operand of _evaluate_expression *)

\* a call off the literal-only path whose lhs path does not resolve in the payload
LhsUnresolved == ThreeTokensSupported /\ ~OnFastPath /\ ~LhsLookup.ok

\* the rhs operand of a relaxed call: the literal, else the payload value, else None
RelaxedRhsOperand ==
  IF RhsParse.ok THEN RhsParse.val
  ELSE IF RhsLookup.ok THEN RhsLookup.val
  ELSE None

\* C20: when the lhs path does not resolve (missing key, non-mapping or null
\* intermediate), a relaxed call goes on with None for the lhs and returns a
\* boolean; a call without the relaxed flag ends with the path error, a
\* RuleEvaluationError naming the path
C20_UnresolvedLhsDegradesOnlyWhenRelaxed ==
  LhsUnresolved =>
    IF args.relaxed
    THEN /\ result.ok /\ result.val.t = "bool"
         /\ result = Ret(PyBool(relaxed_equals(None, RelaxedRhsOperand)))
    ELSE /\ result = LhsLookup
         /\ result.exc = "RuleEvaluationError"
         /\ result.kind \in {"missing_key", "expected_dict", "null_value"}
         /\ result.detail = LhsToken

\* the relaxed call "a.c == null" on a payload whose "a" has no "c": True
C20_Witness ==
  /\ LhsUnresolved /\ args.relaxed
  /\ LhsLookup.kind = "missing_key" /\ RhsToken = <<"n", "u", "l", "l">>
  /\ result = Ret(PyBool(TRUE))

-----------------------------------------------------------------------------
(* Properties of the literal-only path of _evaluate_expression *)

LhsParse == parse_literal(PyStr(LhsToken))

\* compare_fn(parse_literal(lhs), parse_literal(rhs)) as lines 57-64 evaluate it:
\* the lhs is parsed first, an exception of parse_literal is not caught, an
\* exception of the comparison is reported as RuleEvaluationError
LiteralComparison ==
  IF ~LhsParse.ok THEN LhsParse
  ELSE IF ~RhsParse.ok THEN RhsParse
  ELSE LET cmp == ApplyOperator(OperatorToken, LhsParse.val, RhsParse.val)
       IN IF cmp.ok THEN Ret(PyBool(cmp.b))
          ELSE REE("literal_comparison_failed", OperatorToken)

\* C21: on the literal-only path the result is the requested operator's function
\* applied to the two parsed literals whatever the mode: strict mode makes no
\* type check (true == "true" is False, not an error), relaxed mode does not
\* use relaxed_equals, and a failing comparison is a RuleEvaluationError
C21_FastPathAppliesOperator ==
  OnFastPath =>
    /\ result = LiteralComparison
    /\ (LhsToken = <<"t", "r", "u", "e">> /\ RhsToken = <<"\"", "t", "r", "u", "e", "\"">> /\ OperatorToken = OpEq)
         => result = Ret(PyBool(FALSE))
    /\ (LhsParse.ok /\ RhsParse.ok /\ ~result.ok) => result.exc = "RuleEvaluationError"

\* the strict call `true == "true"` on an empty payload, answering False
C21_Witness ==
  /\ OnFastPath /\ args.strict /\ ~args.relaxed
  /\ LhsToken = <<"t", "r", "u", "e">> /\ RhsToken = <<"\"", "t", "r", "u", "e", "\"">> /\ OperatorToken = OpEq
  /\ result = Ret(PyBool(FALSE))

\* a token with a fixed value: a quoted string, or a token whose parsed value is
\* a number, a boolean or null
IsLiteralToken(token) ==
  \/ IsQuoted(token)
  \/ /\ parse_literal(PyStr(token)).ok
     /\ parse_literal(PyStr(token)).val.t \in {"int", "float", "bool", "none"}

RaisedPathError ==
  \/ RaisedRuleEvaluationError("missing_key")
  \/ RaisedRuleEvaluationError("expected_dict")
  \/ RaisedRuleEvaluationError("null_value")

\* C22: with an empty payload an expression whose two sides are literal tokens
\* (numbers, negative and decimal ones included, booleans, null, quoted strings)
\* is compared directly and never ends with a path-resolution error
C22_LiteralsNeverResolvedAsPaths ==
  (ThreeTokensSupported /\ ~Truthy(args.payload)
     /\ IsLiteralToken(LhsToken) /\ IsLiteralToken(RhsToken)) =>
    /\ ~RaisedPathError
    /\ result = LiteralComparison

-----------------------------------------------------------------------------
(* Properties of the mode resolution of evaluate_rule *)

\* evaluate_rule was called with a rule whose condition reaches _evaluate_expression
DelegatesExpression == RuleDone /\ CalledCondition.t = "str" /\ CalledCondition.s # <<>>

\* the delegated evaluation run with the given flags
Delegated(strict, relaxed) == _evaluate_expression(CalledCondition.s, args.payload, strict, relaxed)

\* C23: with neither flag supplied the mode is the rule's type_check_mode, an
\* absent or invalid entry meaning strict, and the delegated evaluation runs with
\* exactly one of strict/relaxed set; with a flag supplied the caller's flags are
\* used and the rule's type_check_mode is not consulted
C23_ModeResolution ==
  DelegatesExpression =>
    IF args.strict \/ args.relaxed
    THEN result = Delegated(args.strict, args.relaxed)
    ELSE IF ModeEntry = PyStr(<<"r", "e", "l", "a", "x", "e", "d">>)
         THEN result = Delegated(FALSE, TRUE)
         ELSE result = Delegated(TRUE, FALSE)

\* a rule with an invalid type_check_mode and no flags, failing the strict type check
C23_Witness ==
  /\ DelegatesExpression /\ ~args.strict /\ ~args.relaxed
  /\ ModeEntry = PyStr(<<"b", "o", "g", "u", "s">>)
  /\ RaisedRuleEvaluationError("incompatible_types")

-----------------------------------------------------------------------------
(* Properties of the errors of _evaluate_expression *)

\* C24: whatever the expression, the payload and the flags, a call of
\* _evaluate_expression that fails fails with RuleEvaluationError and with no
\* other exception, on the literal-only path as on the normal one
C24_OnlyRuleEvaluationError ==
  (ExpressionDone /\ ~result.ok) => result.exc = "RuleEvaluationError"

-----------------------------------------------------------------------------
(* Properties of the two relaxed routes of _evaluate_expression *)

TopLevelKey == <<"k">>
NestedPath == <<"a", ".", "b">>

\* a relaxed call `k op r` with a literal r on a payload that holds the same
\* value under the top-level key k and under the nested path a.b
AddressedByKey ==
  /\ ThreeTokensSupported /\ args.relaxed /\ ~OnFastPath
  /\ LhsToken = TopLevelKey /\ IsLiteralToken(RhsToken)
  /\ get_nested_value(args.payload, TopLevelKey).ok
  /\ get_nested_value(args.payload, NestedPath).ok
  /\ get_nested_value(args.payload, TopLevelKey) = get_nested_value(args.payload, NestedPath)

\* the same call with the value addressed by the nested path
AddressedByPath ==
  _evaluate_expression(Join3(NestedPath, OperatorToken, RhsToken), args.payload, args.strict, args.relaxed)

SameOutcome(x, y) == (x.ok /\ y.ok /\ x.val = y.val) \/ (~x.ok /\ ~y.ok)

\* C28: in relaxed mode the outcome for a payload value and an rhs literal is the
\* same whether the value is addressed by a top-level key (coercion route) or by
\* a nested path (symbolic-reference shortcut): the same boolean, or both raise
C28_AddressingDoesNotMatter ==
  AddressedByKey => SameOutcome(result, AddressedByPath)

-----------------------------------------------------------------------------
(* Properties of the tokenization of _evaluate_expression *)

\* operand tokens without a space
PlainOperands == OperatorLhsTokens \cup OperatorRhsTokens \cup {<<"a">>, <<"b">>}

\* the expressions `lhs <operator> rhs` of operator o
ExpressionsOf(o) == {Join3(l, o, r) : l \in PlainOperands, r \in PlainOperands}

\* the expression passes the token-count step (line 45) and the operator
\* validation (lines 50-54), and the operator compared with is o
PassesWith(expression, o) ==
  /\ \A kind \in {"unsupported_format", "unsupported_operator"} :
       _evaluate_expression(expression, args.payload, args.strict, args.relaxed)
         # REE(kind, IF kind = "unsupported_format" THEN expression ELSE SplitMax(Strip(expression), " ", 3)[2])
  /\ TokenCount(expression) = 3
  /\ SplitMax(Strip(expression), " ", 3)[2] = o

\* C29: for each of the nine operators of the closed set, `not in` included, some
\* expression `lhs <operator> rhs` passes the token-count and operator-validation
\* steps and is compared with that operator: whenever a call is made with such an
\* expression, one of the expressions of its operator passes
C29_EveryOperatorUsable ==
  \A o \in SUPPORTED_OPERATORS :
    (ExpressionDone /\ CalledExpression \in ExpressionsOf(o))
      => \E expression \in ExpressionsOf(o) : PassesWith(expression, o)

-----------------------------------------------------------------------------
(* Properties of loading a rule document *)

\* the document's top level is not a mapping, or its "rules" entry is not a
\* list, or one of the records of the list is not a mapping
Malformed(file) ==
  /\ file.state = "parsed"
  /\ \/ file.content.t # "dict"
     \/ /\ KeyRules \in DOMAIN file.content.d
        /\ \/ file.content.d[KeyRules].t # "list"
           \/ \E i \in DOMAIN file.content.d[KeyRules].items : file.content.d[KeyRules].items[i].t # "dict"

NotFound == Raise("FileNotFoundError", "no_such_file", <<>>)

\* C16: loading a rule document fails with the loader's own error: a missing
\* path gives the loader's load error carrying the OS error, and a malformed
\* structure gives RuleConfigError from load_rule_profile and RuntimeError from
\* enforce_profile, never another exception
C16_DocumentErrorsOnly ==
  /\ (pc = "done" /\ LoadCall) =>
       /\ args.path = MissingFile => result = Raise("RuleConfigError", "failed_to_load", NotFound)
       /\ Malformed(args.path) => (~result.ok /\ result.exc = "RuleConfigError")
  /\ (pc = "done" /\ EnforcePathCall) =>
       /\ args.profile_source = MissingFile => result = Raise("RuntimeError", "failed_to_load", NotFound)
       /\ Malformed(args.profile_source) => (~result.ok /\ result.exc = "RuntimeError")

\* the records of the document load_rule_profile was called with
Records == args.path.content.d[KeyRules].items

\* load_rule_profile returned from a document that is a mapping whose "rules"
\* entry is a list of mappings
LoadedWellFormed ==
  /\ pc = "done" /\ LoadCall
  /\ args.path.state = "parsed" /\ args.path.content.t = "dict"
  /\ KeyRules \in DOMAIN args.path.content.d
  /\ args.path.content.d[KeyRules].t = "list"
  /\ \A i \in DOMAIN Records : Records[i].t = "dict"

\* the positions (1-based) of the records whose "if" is a string
Kept == {i \in DOMAIN Records : KeyIf \in DOMAIN Records[i].d /\ Records[i].d[KeyIf].t = "str"}

\* the position of the j-th kept record
KeptAt(j) == CHOOSE i \in Kept : Cardinality({k \in Kept : k < i}) = j - 1

\* what is returned for the record at position i
ReducedRecord(i) ==
  LET rule == Records[i].d
  IN PyDict((KeyIf :> rule[KeyIf])
            @@ (KeyRaise :> IF KeyRaise \in DOMAIN rule THEN rule[KeyRaise]
                            ELSE PyStr(<<"R", "u", "l", "e", " ">> \o IntToStr(i - 1) \o <<" ", "f", "a", "i", "l", "e", "d">>))
            @@ (KeyStrictTypeCheck :> PyBool(KeyStrictTypeCheck \in DOMAIN rule /\ Truthy(rule[KeyStrictTypeCheck]))))

\* C26: load_rule_profile returns, in document order, exactly the records whose
\* "if" is a string, the others being dropped without error, each reduced to the
\* keys if, raise and strict_type_check (a boolean), a missing raise defaulting
\* to "Rule i failed" with i the record's index in the document
C26_KeepsStringConditionsInOrder ==
  LoadedWellFormed =>
    /\ result.ok /\ result.val.t = "list"
    /\ Len(result.val.items) = Cardinality(Kept)
    /\ \A j \in 1..Cardinality(Kept) : result.val.items[j] = ReducedRecord(KeptAt(j))

\* a document of two records, the first with a non-string "if": one rule is
\* returned, with the message "Rule 1 failed" and strict_type_check True
C26_Witness ==
  /\ LoadedWellFormed /\ Len(Records) = 2 /\ Kept = {2}
  /\ result.ok /\ Len(result.val.items) = 1
  /\ result.val.items[1].d[KeyRaise] = PyStr(<<"R", "u", "l", "e", " ", "1", " ", "f", "a", "i", "l", "e", "d">>)
  /\ result.val.items[1].d[KeyStrictTypeCheck] = PyBool(TRUE)

-----------------------------------------------------------------------------
(* Frame of the calls *)

\* a call of get_nested_value, evaluate_rule or enforce_profile is in progress
InCall == pc \in {"walk", "rule", "loop"}

\* C14: get_nested_value, evaluate_rule and enforce_profile leave the payload and
\* the rule list they were given unchanged at every step, whether the call then
\* returns, triggers or fails, and what get_nested_value returns is determined by
\* the payload and the path
C14_InputsUnchanged ==
  /\ [][InCall => args' = args]_vars
  /\ []((pc = "done" /\ fn = "get_nested_value")
          => result = get_nested_value(args.payload, args.path))

\* enforce_profile has raised at its second rule, the list it was given being
\* the two rules it enumerated
C14_Witness ==
  /\ pc = "done" /\ fn = "enforce_profile"
  /\ ~result.ok
  /\ evaluated = <<0, 1>>
  /\ args.profile_source = rules
  /\ Truthy(args.payload)

-----------------------------------------------------------------------------
(* Properties of normalize_operator and resolve_operator *)

NormalizeDone == pc = "done" /\ fn = "normalize_operator"
ResolveDone == pc = "done" /\ fn = "resolve_operator"

\* the aliases the alias table is said to hold, with the token each stands for
ComparisonAliases ==
  (<<"=", "=", "=">> :> <<"=", "=">>) @@ (<<"!", "=", "=">> :> <<"!", "=">>)
  @@ (<<">", ">">> :> <<">">>) @@ (<<"<", "<">> :> <<"<">>)
  @@ (<<">", "=", "=">> :> <<">", "=">>) @@ (<<"<", "=", "=">> :> <<"<", "=">>)
ArithmeticAliases ==
  (<<"+", "+">> :> <<"+">>) @@ (<<"-", "-">> :> <<"-">>) @@ (<<"%", "%">> :> <<"%">>)
Aliases == ComparisonAliases @@ ArithmeticAliases

\* the closed operator set
ClosedOperatorSet ==
  {<<"=", "=">>, <<"!", "=">>, <<"<">>, <<"<", "=">>, <<">">>, <<">", "=">>,
   <<"i", "n">>, <<"n", "o", "t", " ", "i", "n">>, <<"m", "a", "t", "c", "h", "e", "s">>}

CalledAlias == Strip(args.op)

-----------------------------------------------------------------------------
(* Properties of get_nested_value *)

NestedDone == pc = "done" /\ fn = "get_nested_value"
CalledKeys == Split(args.path, ".")

\* the value the first j segments of the path lead to in the payload, when every
\* one of these steps finds its key in a mapping
Unreached == [t |-> "unreached"]
RECURSIVE ValueAt(_, _, _)
ValueAt(payload, keys, j) ==
  IF j = 0 THEN payload
  ELSE LET before == ValueAt(payload, keys, j - 1)
       IN IF before.t = "dict" /\ keys[j] \in DOMAIN before.d
          THEN before.d[keys[j]]
          ELSE Unreached

\* C12: a path with a segment before its last position that resolves to null fails
\* with the null-intermediate error, whatever the segment names are; a path whose
\* last position alone resolves to null returns null
C12_NullIntermediateIsDistinct ==
  NestedDone =>
    /\ \A j \in 1..(Len(CalledKeys) - 1) :
         ValueAt(args.payload, CalledKeys, j) = None
           => /\ ~result.ok
              /\ result.exc = "RuleEvaluationError"
              /\ result.kind = "null_value"
    /\ ValueAt(args.payload, CalledKeys, Len(CalledKeys)) = None => result = Ret(None)

====
